---- MODULE Spec2Model ----
(***************************************************************************)
(* Model of the sales query engine: the in-memory record store, the search *)
(* index, the filter / sort / paginate pipeline of salesService, and the   *)
(* database path with its search cache.                                    *)
(*                                                                         *)
(* Strings are sequences of one-character strings, so that toLowerCase,    *)
(* trim, split, startsWith, includes and the digit projection are computed *)
(* the way the JavaScript computes them.  Record positions are 0-based as  *)
(* in the source: position i of a collection d is d[i + 1].                *)
(***************************************************************************)
EXTENDS Integers, Sequences, FiniteSets, TLC

\* ------------------------------------------------------------------ bounds
MaxRecords == 3
MaxPage == 3
MaxLimit == 2
MaxFilterRecords == 2

\* --------------------------------------------------------- string helpers
Digits == {"0", "1", "2", "3", "4", "5", "6", "7", "8", "9"}

isDigit(c) == c \in Digits

LowerChar(c) ==
  CASE c = "A" -> "a"
    [] c = "B" -> "b"
    [] c = "C" -> "c"
    [] c = "F" -> "f"
    [] c = "M" -> "m"
    [] c = "N" -> "n"
    [] c = "S" -> "s"
    [] c = "T" -> "t"
    [] c = "U" -> "u"
    [] OTHER -> c

toLowerCase(s) == [i \in 1..Len(s) |-> LowerChar(s[i])]

RECURSIVE trimStart(_)
trimStart(s) ==
  IF s # <<>> /\ Head(s) = " " THEN trimStart(Tail(s)) ELSE s

RECURSIVE trimEnd(_)
trimEnd(s) ==
  IF s # <<>> /\ s[Len(s)] = " " THEN trimEnd(SubSeq(s, 1, Len(s) - 1)) ELSE s

trim(s) == trimEnd(trimStart(s))

\* s.replace(/\D/g, '')
digitsOnly(s) == SelectSeq(s, isDigit)

startsWith(s, p) == Len(p) <= Len(s) /\ SubSeq(s, 1, Len(p)) = p

includes(s, p) ==
  \E i \in 0..(Len(s) - Len(p)) : SubSeq(s, i + 1, i + Len(p)) = p

\* s.substring(0, len)
substring0(s, len) == SubSeq(s, 1, IF len < Len(s) THEN len ELSE Len(s))

\* s.slice(-4)
lastFourOf(s) == SubSeq(s, IF Len(s) > 4 THEN Len(s) - 3 ELSE 1, Len(s))

\* s.split(sep) for a one-character separator: the pieces, empty ones included
RECURSIVE splitAcc(_, _, _)
splitAcc(s, sep, cur) ==
  IF s = <<>> THEN <<cur>>
  ELSE IF Head(s) = sep THEN <<cur>> \o splitAcc(Tail(s), sep, <<>>)
  ELSE splitAcc(Tail(s), sep, Append(cur, Head(s)))

split(s, sep) == splitAcc(s, sep, <<>>)

nonEmpty(w) == Len(w) > 0

\* s.split(/\s+/).filter(w => w.length > 0)
splitWords(s) == SelectSeq(split(s, " "), nonEmpty)

\* the elements of a sequence
Range(s) == {s[i] : i \in 1..Len(s)}

Min2(a, b) == IF a < b THEN a ELSE b
Max2(a, b) == IF a > b THEN a ELSE b

\* ------------------------------------------------ searchIndex.js: the index
\* A Map is a sequence of entries in insertion order; a Set of positions is a
\* duplicate-free sequence in insertion order (both iterate in that order).
SetAdd(s, x) == IF x \in Range(s) THEN s ELSE Append(s, x)

MapHas(m, k) == \E j \in 1..Len(m) : m[j].key = k

MapGet(m, k) == m[CHOOSE j \in 1..Len(m) : m[j].key = k].indices

\* if (!map.has(k)) map.set(k, new Set()); map.get(k).add(i)
MapAdd(m, k, i) ==
  IF MapHas(m, k)
  THEN [j \in 1..Len(m) |->
          IF m[j].key = k
          THEN [key |-> k, indices |-> SetAdd(m[j].indices, i)]
          ELSE m[j]]
  ELSE Append(m, [key |-> k, indices |-> <<i>>])

RECURSIVE addWords(_, _, _)
addWords(m, words, i) ==
  IF words = <<>> THEN m
  ELSE addWords(MapAdd(m, Head(words), i), Tail(words), i)

RECURSIVE addPrefixes(_, _, _, _)
addPrefixes(m, phoneDigits, len, i) ==
  IF len > Min2(Len(phoneDigits), 6) THEN m
  ELSE addPrefixes(MapAdd(m, substring0(phoneDigits, len), i),
                   phoneDigits, len + 1, i)

normalizedOf(record) ==
  LET normalizedPhone == toLowerCase(record.phoneNumber)
  IN [name |-> toLowerCase(record.customerName),
      phone |-> normalizedPhone,
      phoneDigits |-> digitsOnly(normalizedPhone)]

indexPhone(m, phoneDigits, i) ==
  IF Len(phoneDigits) >= 3
  THEN LET withPrefixes == addPrefixes(m, phoneDigits, 3, i)
       IN IF Len(phoneDigits) >= 4
          THEN MapAdd(withPrefixes, lastFourOf(phoneDigits), i)
          ELSE withPrefixes
  ELSE m

EmptyIndex ==
  [nameWordIndex |-> <<>>, phoneIndex |-> <<>>, normalizedData |-> <<>>,
   dataLength |-> 0, isBuilt |-> FALSE]

RECURSIVE buildLoop(_, _, _)
buildLoop(ix, data, i) ==
  IF i >= Len(data) THEN ix
  ELSE LET n == normalizedOf(data[i + 1])
       IN buildLoop(
            [ix EXCEPT
               !.normalizedData = Append(@, n),
               !.nameWordIndex = addWords(@, splitWords(n.name), i),
               !.phoneIndex = indexPhone(@, n.phoneDigits, i)],
            data, i + 1)

\* SearchIndex.build(data)
build(data) ==
  [buildLoop([EmptyIndex EXCEPT !.dataLength = Len(data)], data, 0)
     EXCEPT !.isBuilt = TRUE]

\* build keeping the two maps of the index it is called on
resetIndex_keepingMaps(ix) ==
  [EmptyIndex EXCEPT !.nameWordIndex = ix.nameWordIndex,
                     !.phoneIndex = ix.phoneIndex]

\* the first statements of build: new maps, a new normalizedData array
resetIndex(ix) == EmptyIndex

\* SearchIndex.build(data) called on the singleton in state ix
buildOn(ix, data) ==
  [buildLoop([resetIndex(ix) EXCEPT !.dataLength = Len(data)], data, 0)
     EXCEPT !.isBuilt = TRUE]

\* SearchIndex.clear()
clear == EmptyIndex

\* the scan's test looking at names only
linearMatch_nameOnly(item, query, queryDigits) == includes(item.name, query)

linearMatch(item, query, queryDigits) ==
  \/ includes(item.name, query)
  \/ includes(item.phone, query)
  \/ (Len(queryDigits) >= 3 /\ includes(item.phoneDigits, queryDigits))

RECURSIVE scanFrom(_, _, _, _)
scanFrom(nd, query, queryDigits, i) ==
  IF i >= Len(nd) THEN <<>>
  ELSE (IF linearMatch(nd[i + 1], query, queryDigits) THEN <<i>> ELSE <<>>)
         \o scanFrom(nd, query, queryDigits, i + 1)

\* SearchIndex.linearSearch(query): scans the index's own normalizedData
linearSearch(ix, query) ==
  scanFrom(ix.normalizedData, query, digitsOnly(query), 0)

RECURSIVE addAll(_, _)
addAll(resultSet, indices) ==
  IF indices = <<>> THEN resultSet
  ELSE addAll(SetAdd(resultSet, Head(indices)), Tail(indices))

\* strategy 1 taking only the words equal to the query
RECURSIVE wordMatches_exactOnly(_, _, _)
wordMatches_exactOnly(resultSet, m, q) ==
  IF m = <<>> THEN resultSet
  ELSE wordMatches_exactOnly(
         IF Head(m).key = q THEN addAll(resultSet, Head(m).indices) ELSE resultSet,
         Tail(m), q)

RECURSIVE wordMatches(_, _, _)
wordMatches(resultSet, m, q) ==
  IF m = <<>> THEN resultSet
  ELSE wordMatches(
         IF startsWith(Head(m).key, q) \/ Head(m).key = q
         THEN addAll(resultSet, Head(m).indices) ELSE resultSet,
         Tail(m), q)

RECURSIVE prefixMatches(_, _, _, _)
prefixMatches(resultSet, m, queryDigits, len) ==
  IF len > Min2(Len(queryDigits), 6) THEN resultSet
  ELSE LET prefix == substring0(queryDigits, len)
       IN prefixMatches(
            IF MapHas(m, prefix) THEN addAll(resultSet, MapGet(m, prefix))
            ELSE resultSet,
            m, queryDigits, len + 1)

phoneMatches(resultSet, m, queryDigits) ==
  IF Len(queryDigits) >= 3
  THEN prefixMatches(
         IF MapHas(m, queryDigits) THEN addAll(resultSet, MapGet(m, queryDigits))
         ELSE resultSet,
         m, queryDigits, 3)
  ELSE resultSet

\* the candidates of strategies 1 and 2 of SearchIndex.search
indexCandidates(ix, normalizedQuery) ==
  phoneMatches(wordMatches(<<>>, ix.nameWordIndex, normalizedQuery),
               ix.phoneIndex, digitsOnly(normalizedQuery))

\* the null that search returns for an empty query, as a list no search yields
NULL == <<-1>>

\* search testing the query for emptiness before it is trimmed
search_untrimmed(ix, query, data) ==
  IF Len(query) = 0 THEN NULL
  ELSE LET normalizedQuery == trim(toLowerCase(query))
       IN IF ~ix.isBuilt \/ ix.dataLength # Len(data)
          THEN linearSearch(ix, normalizedQuery)
          ELSE LET resultSet == indexCandidates(ix, normalizedQuery)
               IN IF Len(resultSet) = 0
                  THEN scanFrom(ix.normalizedData, normalizedQuery,
                                digitsOnly(normalizedQuery), 0)
                  ELSE resultSet

\* SearchIndex.search(query, data): NULL, or the matching positions in order
search(ix, query, data) ==
  IF Len(trim(query)) = 0 THEN NULL
  ELSE LET normalizedQuery == trim(toLowerCase(query))
       IN IF ~ix.isBuilt \/ ix.dataLength # Len(data)
          THEN linearSearch(ix, normalizedQuery)
          ELSE LET resultSet == indexCandidates(ix, normalizedQuery)
               IN IF Len(resultSet) = 0
                  THEN scanFrom(ix.normalizedData, normalizedQuery,
                                digitsOnly(normalizedQuery), 0)
                  ELSE resultSet

\* ---------------------------------------------------------------- records
\* JavaScript's undefined (an array read past the end) and NaN
UNDEFINED == [undefined |-> TRUE]
\* a null number (an absent bound) and NaN, as numbers no field takes
NONE == -1001
NaN == -1002
\* the outcome of a call that throws a TypeError
THROWN == <<[thrown |-> "TypeError"]>>

isNaN(x) == x = NaN

\* new Date(d).getTime(): dates are kept as numbers of half days, an
\* unparseable date string is InvalidDate
InvalidDate == -1003
getTime(d) == IF d = InvalidDate THEN NaN ELSE d

\* endDate.setHours(23, 59, 59, 999): the last instant of that day
HalfDaysPerDay == 2
endOfDay(t) == t + HalfDaysPerDay - 1

North == <<"N", "o", "r", "t", "h">>
north == <<"n", "o", "r", "t", "h">>
South == <<"S", "o", "u", "t", "h">>
Female == <<"F">>
Male == <<"M">>
Toys == <<"T", "o", "y", "s">>
Food == <<"F", "o", "o", "d">>
Cash == <<"C", "a", "s", "h">>
Card == <<"C", "a", "r", "d">>
UPI == <<"U", "P", "I">>

Rec(id, name, phone, gender, age, region, category, tags, pay, qty, amount, date) ==
  [customerId |-> id, customerName |-> name, phoneNumber |-> phone,
   gender |-> gender, age |-> age, customerRegion |-> region,
   productCategory |-> category, tags |-> tags, paymentMethod |-> pay,
   quantity |-> qty, finalAmount |-> amount, date |-> date]

R1 == Rec(1, <<"A", "n", "n", " ", "B", "o", "b">>, <<"1", "2", "3", "9">>,
          Female, 30, North, Toys, <<"a", ",", " ", "B">>, Cash, 2, 50, 4)
R2 == Rec(2, <<"a", "l">>, <<"+", "9", "1", " ", "1", "2", "3", "4", "5", "6", "7">>,
          Male, 40, north, Food, <<"b">>, Card, 1, 50, 4)
R3 == Rec(3, <<"B", "o", " ", "A", "n", "n">>, <<>>,
          Female, 0, <<>>, Toys, <<>>, Cash, 2, 20, 2)
R4 == Rec(4, <<>>, <<"9", "1", "2", "3", "4">>,
          Male, 35, South, Food, <<"c", ",", "a">>, UPI, 3, 70, 6)

\* the rows a data source can deliver
RecordPool == {R1, R2, R3}

\* the duplicate-free sequences over S of length at most n
RECURSIVE SeqsUpTo(_, _)
SeqsUpTo(S, n) ==
  IF n = 0 THEN {<<>>}
  ELSE LET shorter == SeqsUpTo(S, n - 1)
       IN shorter \cup
          {Append(t, x) : <<t, x>> \in
             {p \in shorter \X S : Len(p[1]) = n - 1 /\ p[2] \notin Range(p[1])}}

Collections == SeqsUpTo(RecordPool, MaxRecords)

\* dataService.normalizeRecord on a row whose fields are already typed:
\* every field is copied, a missing value defaulted
normalizeRecord(record) ==
  Rec(record.customerId, record.customerName, record.phoneNumber,
      record.gender, record.age, record.customerRegion,
      record.productCategory, record.tags, record.paymentMethod,
      record.quantity, record.finalAmount, record.date)

\* ------------------------------------------------------------ dataUtils.js
\* data[i] for a 0-based position i
at(data, i) == IF i >= 0 /\ i < Len(data) THEN data[i + 1] ELSE UNDEFINED

\* applySearch(data, searchTerm)
applySearch(ix, data, searchTerm) ==
  IF Len(trim(searchTerm)) = 0 THEN data
  ELSE LET matchingIndices == search(ix, searchTerm, data)
       IN IF matchingIndices = NULL THEN data
          ELSE [k \in 1..Len(matchingIndices) |-> at(data, matchingIndices[k])]

NoFilters ==
  [search |-> <<>>, regions |-> <<>>, genders |-> <<>>, categories |-> <<>>,
   tags |-> <<>>, paymentMethods |-> <<>>, minAge |-> NONE, maxAge |-> NONE,
   startDate |-> NONE, endDate |-> NONE]

hasMinAge(filters) == filters.minAge # NONE /\ ~isNaN(filters.minAge)
hasMaxAge(filters) == filters.maxAge # NONE /\ ~isNaN(filters.maxAge)

\* the requested values compared as given, without lowercasing
lowerSet_caseSensitive(values) == {values[k] : k \in 1..Len(values)}

lowerSet(values) == {toLowerCase(values[k]) : k \in 1..Len(values)}

startDateTime(filters) ==
  IF filters.startDate # NONE /\ ~isNaN(getTime(filters.startDate))
  THEN getTime(filters.startDate) ELSE NONE

endDateTime(filters) ==
  IF filters.endDate # NONE /\ ~isNaN(getTime(filters.endDate))
  THEN endOfDay(getTime(filters.endDate)) ELSE NONE

hasAnyFilter(filters) ==
  \/ Len(filters.regions) > 0
  \/ Len(filters.genders) > 0
  \/ Len(filters.categories) > 0
  \/ Len(filters.tags) > 0
  \/ Len(filters.paymentMethods) > 0
  \/ hasMinAge(filters)
  \/ hasMaxAge(filters)
  \/ startDateTime(filters) # NONE
  \/ endDateTime(filters) # NONE

\* the date check letting an item through when its date cannot be read
dateMatch_failOpen(item, filters) ==
  LET itemTime == getTime(item.date)
      m2 == IF ~isNaN(itemTime) /\ startDateTime(filters) # NONE
            THEN ~(itemTime < startDateTime(filters)) ELSE TRUE
  IN IF m2 /\ ~isNaN(itemTime) /\ endDateTime(filters) # NONE
     THEN ~(itemTime > endDateTime(filters)) ELSE m2

\* item.tags.split(',').map(t => t.trim().toLowerCase())
itemTags(item) ==
  LET pieces == split(item.tags, ",")
  IN {toLowerCase(trim(pieces[k])) : k \in 1..Len(pieces)}

dateMatch(item, filters) ==
  LET itemTime == getTime(item.date)
      m1 == ~isNaN(itemTime)
      m2 == IF m1 /\ startDateTime(filters) # NONE
            THEN ~(itemTime < startDateTime(filters)) ELSE m1
  IN IF m2 /\ endDateTime(filters) # NONE
     THEN ~(itemTime > endDateTime(filters)) ELSE m2

\* the loop body keeping an item that passes any one of the active checks
itemMatch_anyField(item, filters) ==
  \/ Len(filters.regions) > 0
       /\ toLowerCase(item.customerRegion) \in lowerSet(filters.regions)
  \/ Len(filters.genders) > 0
       /\ toLowerCase(item.gender) \in lowerSet(filters.genders)
  \/ hasMinAge(filters) /\ item.age >= filters.minAge
  \/ hasMaxAge(filters) /\ item.age <= filters.maxAge
  \/ Len(filters.categories) > 0
       /\ toLowerCase(item.productCategory) \in lowerSet(filters.categories)
  \/ Len(filters.tags) > 0 /\ Len(item.tags) > 0
       /\ itemTags(item) \cap lowerSet(filters.tags) # {}
  \/ Len(filters.paymentMethods) > 0
       /\ toLowerCase(item.paymentMethod) \in lowerSet(filters.paymentMethods)
  \/ (startDateTime(filters) # NONE \/ endDateTime(filters) # NONE)
       /\ dateMatch(item, filters)

\* the body of the single-pass loop: each check runs only while match holds
itemMatch(item, filters) ==
  LET m1 == IF Len(filters.regions) > 0
            THEN toLowerCase(item.customerRegion) \in lowerSet(filters.regions)
            ELSE TRUE
      m2 == IF m1 /\ Len(filters.genders) > 0
            THEN toLowerCase(item.gender) \in lowerSet(filters.genders)
            ELSE m1
      m3 == IF m2 /\ hasMinAge(filters) THEN item.age >= filters.minAge ELSE m2
      m4 == IF m3 /\ hasMaxAge(filters) THEN item.age <= filters.maxAge ELSE m3
      m5 == IF m4 /\ Len(filters.categories) > 0
            THEN toLowerCase(item.productCategory) \in lowerSet(filters.categories)
            ELSE m4
      m6 == IF m5 /\ Len(filters.tags) > 0
            THEN IF Len(item.tags) = 0 THEN FALSE
                 ELSE itemTags(item) \cap lowerSet(filters.tags) # {}
            ELSE m5
      m7 == IF m6 /\ Len(filters.paymentMethods) > 0
            THEN toLowerCase(item.paymentMethod) \in lowerSet(filters.paymentMethods)
            ELSE m6
  IN IF m7 /\ (startDateTime(filters) # NONE \/ endDateTime(filters) # NONE)
     THEN dateMatch(item, filters) ELSE m7

RECURSIVE filterLoop(_, _, _)
filterLoop(data, filters, i) ==
  IF i >= Len(data) THEN <<>>
  ELSE (IF itemMatch(data[i + 1], filters) THEN <<data[i + 1]>> ELSE <<>>)
         \o filterLoop(data, filters, i + 1)

\* applyFilters(data, filters); reading a field of an undefined item throws
applyFilters(data, filters) ==
  IF ~hasAnyFilter(filters) THEN data
  ELSE IF UNDEFINED \in Range(data) THEN THROWN
  ELSE filterLoop(data, filters, 0)

\* String.prototype.localeCompare on lowercased names, as a sign
CharOrder ==
  <<" ", "+", ",", "-", "0", "1", "2", "3", "4", "5", "6", "7", "8", "9",
    "a", "b", "c", "d", "f", "h", "i", "l", "m", "n", "o", "p", "r", "s",
    "t", "u", "y">>

charRank(c) == CHOOSE k \in 1..Len(CharOrder) : CharOrder[k] = c

RECURSIVE localeCompare(_, _)
localeCompare(a, b) ==
  IF a = <<>> THEN (IF b = <<>> THEN 0 ELSE -1)
  ELSE IF b = <<>> THEN 1
  ELSE IF Head(a) = Head(b) THEN localeCompare(Tail(a), Tail(b))
  ELSE IF charRank(Head(a)) < charRank(Head(b)) THEN -1 ELSE 1

SortKeys == {"date", "quantity", "customerName", "finalAmount"}

\* the comparator of applySorting
comparison(a, b, sortBy) ==
  CASE sortBy = "date" ->
         IF isNaN(getTime(a.date)) \/ isNaN(getTime(b.date)) THEN NaN
         ELSE getTime(a.date) - getTime(b.date)
    [] sortBy = "quantity" -> a.quantity - b.quantity
    [] sortBy = "customerName" ->
         localeCompare(toLowerCase(a.customerName), toLowerCase(b.customerName))
    [] sortBy = "finalAmount" -> a.finalAmount - b.finalAmount
    [] OTHER -> 0

\* what sort() sees: the comparator's value, a NaN taken as 0
compare(a, b, sorting) ==
  LET c == comparison(a, b, sorting.sortBy)
  IN IF isNaN(c) THEN 0
     ELSE IF sorting.sortOrder = "desc" THEN 0 - c ELSE c

\* Array.prototype.sort is stable: x goes before the first element that
\* compares greater than it
RECURSIVE insertSorted(_, _, _)
insertSorted(sorted, x, sorting) ==
  IF sorted = <<>> THEN <<x>>
  ELSE IF compare(Head(sorted), x, sorting) > 0 THEN <<x>> \o sorted
  ELSE <<Head(sorted)>> \o insertSorted(Tail(sorted), x, sorting)

RECURSIVE sortLoop(_, _, _)
sortLoop(sorted, rest, sorting) ==
  IF rest = <<>> THEN sorted
  ELSE sortLoop(insertSorted(sorted, Head(rest), sorting), Tail(rest), sorting)

isDefined(x) == x # UNDEFINED
isUndefined(x) == x = UNDEFINED

\* applySorting(data, sorting): a sorted copy; sort() moves undefined
\* elements to the end without comparing them
applySorting(data, sorting) ==
  sortLoop(<<>>, SelectSeq(data, isDefined), sorting)
    \o SelectSeq(data, isUndefined)

\* data.slice(start, end) with 0-based, end-exclusive bounds
slice(data, start, end) ==
  SubSeq(data, Min2(start, Len(data)) + 1, Min2(end, Len(data)))

\* applyPagination with the page taken as 0-based
applyPagination_zeroBased(data, pagination) ==
  LET startIndex == pagination.page * pagination.limit
      endIndex == startIndex + pagination.limit
  IN slice(data, startIndex, endIndex)

\* applyPagination(data, pagination)
applyPagination(data, pagination) ==
  LET startIndex == (pagination.page - 1) * pagination.limit
      endIndex == startIndex + pagination.limit
  IN slice(data, startIndex, endIndex)

\* ------------------------------------------------- salesService.js (memory)
VARIABLES
  salesData,     \* dataService: the stored collection
  searchIndex,   \* searchIndex.js: the singleton index
  installedBy,   \* the operation that installed the stored collection
  req,           \* the request being handled
  hits,          \* what the search index returned for its text query
  res,           \* the result returned for it
  call,          \* the arguments of a direct call of a dataUtils function
  ret,           \* what that call returned
  salesTable,    \* the rows of the database's sales table; a row's id is its position
  indexRows,     \* how many of them the database's search_index table mirrors
  cacheRecords,  \* searchCache.records
  isReady,       \* searchCache.isReady
  isLoading,     \* searchCache.isLoading
  builds,         \* every call of searchCache.build: where it stands and its id cursor
  statsCache,    \* salesService: the cached statistics, <<>> for null
  lastDataLength, \* salesService: the collection size at the last check
  filterOptionsPrecomputed, \* dataService: the options computed at load, <<>> for null
  filterOptionsCache, \* salesService: the options computed on demand, <<>> for null
  invoked,       \* databaseService: the search strategies the request in hand has invoked
  hook           \* useFilters: the client's filters, sorting and pagination

storeVars == <<salesData, searchIndex, installedBy>>

hasActiveFilters(filters) ==
  \/ Len(filters.regions) > 0
  \/ Len(filters.genders) > 0
  \/ Len(filters.categories) > 0
  \/ Len(filters.tags) > 0
  \/ Len(filters.paymentMethods) > 0
  \/ hasMinAge(filters)
  \/ hasMaxAge(filters)
  \/ filters.startDate # NONE
  \/ filters.endDate # NONE

\* Math.ceil(a / b) for a >= 0, b >= 1
ceilDiv(a, b) == (a + b - 1) \div b

DefaultSort == [sortBy |-> "date", sortOrder |-> "desc"]

\* the matching list of getSalesDataFiltered before sorting (lines 70-85)
matched(ix, data, filters) ==
  applyFilters(
    IF Len(filters.search) > 0 THEN applySearch(ix, data, filters.search)
    ELSE data,
    filters)

\* the sort step of getSalesDataFiltered (lines 90-105): skipped for the
\* default sort when neither a text query nor a filter is active
sortStage(m, filters, sorting) ==
  IF m = THROWN THEN THROWN
  ELSE IF sorting = DefaultSort /\ Len(filters.search) = 0
          /\ ~hasActiveFilters(filters)
       THEN m
       ELSE applySorting(m, sorting)

\* the list of getSalesDataFiltered before pagination (lines 70-105)
sortedMatched(ix, data, filters, sorting) ==
  sortStage(matched(ix, data, filters), filters, sorting)

NoResult ==
  [status |-> "none", data |-> <<>>, currentPage |-> 0, totalPages |-> 0,
   totalItems |-> 0, itemsPerPage |-> 0, hasNextPage |-> FALSE,
   hasPrevPage |-> FALSE, searchStatus |-> ""]

\* the page result with hasNextPage taken as "not on the last page"
PageResult_nextUnlessLast(data, page, totalItems, limit) ==
  [status |-> "ok", data |-> data, currentPage |-> page,
   totalPages |-> ceilDiv(totalItems, limit), totalItems |-> totalItems,
   itemsPerPage |-> limit, hasNextPage |-> page # ceilDiv(totalItems, limit),
   hasPrevPage |-> page > 1, searchStatus |-> ""]

PageResult(data, page, totalItems, limit) ==
  [status |-> "ok", data |-> data, currentPage |-> page,
   totalPages |-> ceilDiv(totalItems, limit), totalItems |-> totalItems,
   itemsPerPage |-> limit, hasNextPage |-> page < ceilDiv(totalItems, limit),
   hasPrevPage |-> page > 1, searchStatus |-> ""]

\* the page and its metadata (lines 108-123); a TypeError thrown by the
\* filter stage rejects the call
pageStage(sorted, pagination) ==
  IF sorted = THROWN THEN [NoResult EXCEPT !.status = "error"]
  ELSE PageResult(applyPagination(sorted, pagination), pagination.page,
                  Len(sorted), pagination.limit)

\* getSalesDataFiltered, in-memory branch
getSalesDataFiltered(ix, data, filters, sorting, pagination) ==
  pageStage(sortedMatched(ix, data, filters, sorting), pagination)

\* applySorting sorting the array it was handed instead of a copy
arrayAfterSort_inPlace(data, sorting) == applySorting(data, sorting)

\* the array handed to applySorting once it returned: the sort runs on the
\* copy [...data], so the array is as it was
arrayAfterSort(data, sorting) == data

\* the list that reaches the sort step is the stored array itself: applySearch
\* returned its argument and applyFilters found no active filter
sharesStore(data, filters) ==
  Len(trim(filters.search)) = 0 /\ ~hasAnyFilter(filters)

\* the sort step of getSalesDataFiltered is skipped
sortSkipped(filters, sorting) ==
  sorting = DefaultSort /\ Len(filters.search) = 0 /\ ~hasActiveFilters(filters)

\* the stored array after a request that sorts (or not) what it selected
storeAfter(data, filters, sorting, sorts) ==
  IF sorts /\ sharesStore(data, filters) THEN arrayAfterSort(data, sorting)
  ELSE data

\* ------------------------------------------------------------ the requests
Q_a == <<"a">>
Q_nn == <<"n", "n">>
Q_1234 == <<"1", "2", "3", "4">>
Q_1234567 == <<"1", "2", "3", "4", "5", "6", "7">>

Queries == {<<>>, Q_a, Q_nn, Q_1234}

FilterSpecs ==
  {NoFilters,
   [NoFilters EXCEPT !.regions = <<North>>],
   [NoFilters EXCEPT !.tags = <<<<"b">>>>, !.maxAge = 40]}

Sortings == [sortBy : SortKeys, sortOrder : {"asc", "desc"}]

\* the sortings the requests of the model carry
RequestSortings ==
  {DefaultSort,
   [sortBy |-> "date", sortOrder |-> "asc"],
   [sortBy |-> "customerName", sortOrder |-> "asc"],
   [sortBy |-> "finalAmount", sortOrder |-> "desc"]}

Paginations == [page : 1..MaxPage, limit : 1..MaxLimit]

NoRequest ==
  [filters |-> NoFilters, sorting |-> DefaultSort,
   pagination |-> [page |-> 0, limit |-> 0]]

NoCall == [fn |-> "none", data |-> <<>>, filters |-> NoFilters]

utilVars == <<call, ret>>

cacheVars == <<cacheRecords, isReady, isLoading, builds>>

dbVars == <<salesTable, indexRows, cacheRecords, isReady, isLoading, builds>>

statsVars == <<statsCache, lastDataLength>>

optionVars == <<filterOptionsPrecomputed, filterOptionsCache>>

\* no request is being handled
idle == req = NoRequest

\* Array.prototype.sort() without a comparator: by UTF-16 code units, so
\* every capital letter comes before every small one
CodeUnitOrder ==
  <<" ", "+", ",", "-", "0", "1", "2", "3", "4", "5", "6", "7", "8", "9",
    "A", "B", "C", "F", "I", "M", "N", "P", "S", "T", "U",
    "a", "b", "c", "d", "f", "h", "i", "l", "m", "n", "o", "p", "r", "s",
    "t", "u", "y">>

codeUnit(c) == CHOOSE k \in 1..Len(CodeUnitOrder) : CodeUnitOrder[k] = c

RECURSIVE codeUnitLess(_, _)
codeUnitLess(a, b) ==
  IF b = <<>> THEN FALSE
  ELSE IF a = <<>> THEN TRUE
  ELSE IF Head(a) = Head(b) THEN codeUnitLess(Tail(a), Tail(b))
  ELSE codeUnit(Head(a)) < codeUnit(Head(b))

RECURSIVE insertValue(_, _)
insertValue(sorted, x) ==
  IF sorted = <<>> THEN <<x>>
  ELSE IF codeUnitLess(x, Head(sorted)) THEN <<x>> \o sorted
  ELSE <<Head(sorted)>> \o insertValue(Tail(sorted), x)

\* Array.from(set).sort()
RECURSIVE sortedValues(_)
sortedValues(set) ==
  IF set = <<>> THEN <<>>
  ELSE insertValue(sortedValues(Tail(set)), Head(set))

\* the Set filled by "if (item[field]) values.add(item[field])"
RECURSIVE valueSet(_, _, _)
valueSet(values, data, field) ==
  IF data = <<>> THEN values
  ELSE valueSet(IF Head(data)[field] # <<>> THEN SetAdd(values, Head(data)[field])
                ELSE values,
                Tail(data), field)

\* dataUtils.extractUniqueValues(data, field)
extractUniqueValues(data, field) == sortedValues(valueSet(<<>>, data, field))

\* tagList.forEach(tag => { if (tag) tagsSet.add(tag) })
RECURSIVE addTags(_, _)
addTags(tagsSet, tagList) ==
  IF tagList = <<>> THEN tagsSet
  ELSE addTags(IF Head(tagList) # <<>> THEN SetAdd(tagsSet, Head(tagList))
               ELSE tagsSet,
               Tail(tagList))

trimmedPieces(tags) == [k \in 1..Len(split(tags, ",")) |-> trim(split(tags, ",")[k])]

RECURSIVE tagSet(_, _)
tagSet(tagsSet, data) ==
  IF data = <<>> THEN tagsSet
  ELSE tagSet(IF Head(data).tags # <<>>
              THEN addTags(tagsSet, trimmedPieces(Head(data).tags))
              ELSE tagsSet,
              Tail(data))

extractUniqueTags(data) == sortedValues(tagSet(<<>>, data))

\* the ages above 0 of the collection
positiveAges(data) == {data[k].age : k \in {j \in 1..Len(data) : data[j].age > 0}}

\* the age range when no record has an age above 0
DefaultMinAge == 0
DefaultMaxAge == 100

getAgeRange(data) ==
  IF positiveAges(data) = {} THEN [min |-> DefaultMinAge, max |-> DefaultMaxAge]
  ELSE [min |-> CHOOSE a \in positiveAges(data) : \A b \in positiveAges(data) : a <= b,
        max |-> CHOOSE a \in positiveAges(data) : \A b \in positiveAges(data) : a >= b]

\* the options object; its dateRange, which reads the clock for an empty
\* collection, is left out
filterOptionsOf(data) ==
  [regions |-> extractUniqueValues(data, "customerRegion"),
   genders |-> extractUniqueValues(data, "gender"),
   categories |-> extractUniqueValues(data, "productCategory"),
   tags |-> extractUniqueTags(data),
   paymentMethods |-> extractUniqueValues(data, "paymentMethod"),
   ageRange |-> getAgeRange(data)]

\* dataService.precomputeFilterOptions(data): one loop filling the same sets
precomputeFilterOptions(data) == filterOptionsOf(data)

\* ------------------------------------------------------------- dataService
\* the pre-sort of loadSalesData: comparator dateB.getTime() - dateA.getTime()
preSort(data) == sortLoop(<<>>, data, DefaultSort)

mapNormalize(rows) == [k \in 1..Len(rows) |-> normalizeRecord(rows[k])]

\* loadSalesData, CSV branch: normalise the rows, sort, build the index
LoadCSV ==
  /\ idle
  /\ \E rows \in Collections :
    /\ salesData' = preSort(mapNormalize(rows))
    /\ filterOptionsPrecomputed' = <<precomputeFilterOptions(mapNormalize(rows))>>
    /\ searchIndex' = build(salesData')
    /\ installedBy' = "loadCSV"
    /\ req' = NoRequest /\ hits' = NULL /\ res' = NoResult
    /\ UNCHANGED utilVars
  /\ UNCHANGED <<dbVars, statsVars, filterOptionsCache, invoked, hook>>

\* loadSalesData, no CSV file: generateSampleData, build the index
LoadSample ==
  /\ idle
  /\ \E generated \in Collections :
    /\ salesData' = generated
    /\ searchIndex' = build(salesData')
    /\ installedBy' = "loadSample"
    /\ req' = NoRequest /\ hits' = NULL /\ res' = NoResult
    /\ UNCHANGED utilVars
  /\ UNCHANGED <<dbVars, statsVars, optionVars, invoked, hook>>

\* setSalesData(data)
SetSalesData ==
  /\ idle
  /\ \E data \in Collections :
    /\ salesData' = mapNormalize(data)
    /\ installedBy' = "setSalesData"
    /\ req' = NoRequest /\ hits' = NULL /\ res' = NoResult
    /\ UNCHANGED utilVars
    /\ UNCHANGED searchIndex
  /\ UNCHANGED <<dbVars, statsVars, optionVars, invoked, hook>>

\* dataUtils.buildSearchIndex(getSalesData())
BuildSearchIndex ==
  /\ idle
  /\ searchIndex' = build(salesData)
  /\ req' = NoRequest /\ hits' = NULL /\ res' = NoResult
  /\ UNCHANGED <<salesData, installedBy, call, ret>>
  /\ UNCHANGED <<dbVars, statsVars, optionVars, invoked, hook>>

\* dataUtils.clearSearchIndex()
ClearSearchIndex ==
  /\ idle
  /\ searchIndex' = clear
  /\ req' = NoRequest /\ hits' = NULL /\ res' = NoResult
  /\ UNCHANGED <<salesData, installedBy, call, ret>>
  /\ UNCHANGED <<dbVars, statsVars, optionVars, invoked, hook>>

\* salesService.getSalesData(filters, sorting, pagination); the handler has
\* no await on this path, so it runs to completion before anything else
Query ==
  /\ idle
  /\ \E q \in Queries, f \in FilterSpecs, s \in RequestSortings,
        p \in Paginations :
    LET filters == [f EXCEPT !.search = q]
    IN /\ req' = [filters |-> filters, sorting |-> s, pagination |-> p]
       /\ hits' = IF Len(q) > 0 THEN search(searchIndex, q, salesData) ELSE NULL
       /\ res' = getSalesDataFiltered(searchIndex, salesData, filters, s, p)
       /\ salesData' = storeAfter(salesData, filters, s, ~sortSkipped(filters, s))
       /\ UNCHANGED <<searchIndex, installedBy, utilVars>>
  /\ UNCHANGED <<dbVars, statsVars, optionVars, invoked, hook>>

\* the controller sends the response: the request is over
Respond ==
  /\ ~idle
  /\ req' = NoRequest /\ hits' = NULL /\ res' = NoResult
  /\ invoked' = <<>>
  /\ UNCHANGED <<storeVars, utilVars>>
  /\ UNCHANGED <<dbVars, statsVars, optionVars, hook>>

\* useFilters.js: the state a mounted hook starts from
initialFilters == NoFilters

initialSorting == DefaultSort

InitialLimit == 10

initialPagination == [page |-> 1, limit |-> InitialLimit]

InitialHook ==
  [filters |-> initialFilters, sorting |-> initialSorting,
   pagination |-> initialPagination]

vars == <<salesData, searchIndex, installedBy, req, hits, res, call, ret,
          salesTable, indexRows, cacheRecords, isReady, isLoading, builds,
          statsCache, lastDataLength, filterOptionsPrecomputed,
          filterOptionsCache, invoked, hook>>

\* the in-memory store after the modules are loaded
InitStore ==
  /\ salesData = <<>>
  /\ searchIndex = EmptyIndex
  /\ installedBy = "none"
  /\ req = NoRequest
  /\ hits = NULL
  /\ res = NoResult
  /\ call = NoCall
  /\ ret = <<>>
  /\ statsCache = <<>>
  /\ lastDataLength = 0
  /\ filterOptionsPrecomputed = <<>>
  /\ filterOptionsCache = <<>>
  /\ invoked = <<>>
  /\ hook = InitialHook

Init ==
  /\ InitStore
  /\ salesTable = <<>>
  /\ indexRows = 0
  /\ cacheRecords = <<>>
  /\ isReady = FALSE
  /\ isLoading = FALSE
  /\ builds = <<>>

Next ==
  \/ LoadCSV
  \/ LoadSample
  \/ SetSalesData
  \/ BuildSearchIndex
  \/ ClearSearchIndex
  \/ Query
  \/ Respond

Spec == Init /\ [][Next]_vars

\* ------------------------------------------------ the search index alone
SearchPool == {R1, R2, R3, R4}

SearchCollections == SeqsUpTo(SearchPool, MaxRecords)

SearchQueries ==
  {<<>>, <<" ">>, Q_a, <<" ", "A", "n", " ">>, <<"b", "o">>, Q_nn, <<"z">>,
   <<"1", "2", "3">>, Q_1234, Q_1234567, <<"2", "3", "4", "5">>,
   <<"+", "9", "1">>, <<"9", "-", "1", "2">>}

\* a collection is installed and searchIndex.build(collection) has run
IndexBuild ==
  /\ idle
  /\ \E data \in SearchCollections :
    /\ salesData' = data
    /\ searchIndex' = build(data)
    /\ installedBy' = "setSalesData"
    /\ UNCHANGED <<req, hits, res, utilVars>>
  /\ UNCHANGED <<dbVars, statsVars, optionVars, invoked, hook>>

\* searchIndex.build called again on the unchanged collection
Rebuild ==
  /\ idle
  /\ searchIndex.isBuilt
  /\ searchIndex' = build(salesData)
  /\ UNCHANGED <<salesData, installedBy, req, hits, res, utilVars>>
  /\ UNCHANGED <<dbVars, statsVars, optionVars, invoked, hook>>

\* searchIndex.search(query, data) on the built index
SearchOp ==
  /\ idle
  /\ \E q \in SearchQueries :
    /\ searchIndex.isBuilt
    /\ req' = [NoRequest EXCEPT !.filters.search = q,
                                !.pagination = [page |-> 1, limit |-> 1]]
    /\ hits' = search(searchIndex, q, salesData)
    /\ UNCHANGED <<storeVars, res, utilVars>>
  /\ UNCHANGED <<dbVars, statsVars, optionVars, invoked, hook>>

NextSearch ==
  \/ IndexBuild
  \/ Rebuild
  \/ SearchOp
  \/ Respond

SpecSearch == Init /\ [][NextSearch]_vars

\* -------------------------------------------------------- applyFilters alone
FilterPool == {R1, R2, R3, R4}

FilterCollections == SeqsUpTo(FilterPool, MaxFilterRecords)

FilterInputs ==
  [search : {<<>>},
   regions : {<<>>, <<North>>, <<north, South>>},
   genders : {<<>>, <<Female>>},
   categories : {<<>>, <<Toys>>},
   tags : {<<>>, <<<<"B">>>>, <<<<"a">>, <<"c">>>>},
   paymentMethods : {<<>>, <<Cash, UPI>>},
   minAge : {NONE, NaN, 30},
   maxAge : {NONE, 35, 40},
   startDate : {NONE, 4},
   endDate : {NONE, 4}]

\* applyFilters(data, filters) called directly
FilterOp ==
  /\ call = NoCall
  /\ \E data \in FilterCollections, f \in FilterInputs :
    /\ call' = [fn |-> "applyFilters", data |-> data, filters |-> f]
    /\ ret' = applyFilters(data, f)
    /\ UNCHANGED <<storeVars, req, hits, res>>
  /\ UNCHANGED <<dbVars, statsVars, optionVars, invoked, hook>>

\* the call is over
Return ==
  /\ call # NoCall
  /\ call' = NoCall
  /\ ret' = <<>>
  /\ UNCHANGED <<storeVars, req, hits, res>>
  /\ UNCHANGED <<dbVars, statsVars, optionVars, invoked, hook>>

NextFilters == FilterOp \/ Return

SpecFilters == Init /\ [][NextFilters]_vars

\* ------------------------------------------------- the index built again
\* build(data) and build(data) again, each as a call of its own
BuildIndexCall ==
  /\ idle /\ call = NoCall
  /\ \E data \in SearchCollections :
       /\ salesData' = data
       /\ searchIndex' = buildOn(searchIndex, data)
       /\ installedBy' = "setSalesData"
       /\ call' = [fn |-> "build", data |-> <<>>, filters |-> NoFilters]
  /\ UNCHANGED <<req, hits, res, ret, dbVars, statsVars, optionVars, invoked, hook>>

RebuildIndexCall ==
  /\ idle /\ call = NoCall
  /\ searchIndex.isBuilt
  /\ searchIndex' = buildOn(searchIndex, salesData)
  /\ call' = [fn |-> "rebuild", data |-> <<>>, filters |-> NoFilters]
  /\ UNCHANGED <<salesData, installedBy, req, hits, res, ret, dbVars, statsVars,
                 optionVars, invoked, hook>>

NextRebuild == BuildIndexCall \/ RebuildIndexCall \/ Return

SpecRebuild == Init /\ [][NextRebuild]_vars

\* the filter specifications in which every field is either off or set to
\* one value, so that they can be cut into two in every way
PairInputs ==
  [search : {<<>>},
   regions : {<<>>, <<North>>},
   genders : {<<>>, <<Female>>},
   categories : {<<>>, <<Toys>>},
   tags : {<<>>, <<<<"a">>, <<"c">>>>},
   paymentMethods : {<<>>, <<Cash, UPI>>},
   minAge : {NONE, 30},
   maxAge : {NONE, 35},
   startDate : {NONE, 4},
   endDate : {NONE, 4}]

\* applyFilters(data, filters) called with one of them
FilterPairOp ==
  /\ call = NoCall
  /\ \E data \in FilterCollections, f \in PairInputs :
       /\ call' = [fn |-> "applyFilters", data |-> data, filters |-> f]
       /\ ret' = applyFilters(data, f)
  /\ UNCHANGED <<storeVars, req, hits, res, dbVars, statsVars, optionVars, invoked, hook>>

NextConjunction == FilterPairOp \/ Return

SpecConjunction == Init /\ [][NextConjunction]_vars

\* ------------------------------------------- applyFilters, the date range
\* a row whose date text cannot be parsed, and a row dated in the second
\* half of day 4
R5 == Rec(5, <<"C", "y">>, <<>>, Female, 25, South, Toys, <<>>, Card, 1, 10,
          InvalidDate)
R6 == Rec(6, <<"D", "i">>, <<>>, Male, 50, North, Food, <<>>, UPI, 1, 10, 5)

DatePool == {R1, R3, R4, R5, R6}

DateCollections == SeqsUpTo(DatePool, MaxFilterRecords)

\* the bounds as sent: absent, a text that is no date, the days 2 and 4
DateInputs ==
  {[NoFilters EXCEPT !.genders = g, !.startDate = s, !.endDate = e] :
     g \in {<<>>, <<Female>>}, s \in {NONE, InvalidDate, 2, 4},
     e \in {NONE, InvalidDate, 2, 4}}

FilterDateOp ==
  /\ call = NoCall
  /\ \E data \in DateCollections, f \in DateInputs :
       /\ call' = [fn |-> "applyFilters", data |-> data, filters |-> f]
       /\ ret' = applyFilters(data, f)
  /\ UNCHANGED <<storeVars, req, hits, res, dbVars, statsVars, optionVars, invoked, hook>>

NextDateRange == FilterDateOp \/ Return

SpecDateRange == Init /\ [][NextDateRange]_vars

\* ------------------------------------------------------------ searchCache
MaxRows == 3
MaxBuilds == 2

\* scaled down from 1000 rows a batch, the 10000 rows search_index must hold
\* to be used, and the 1000000-record safety limit
BATCH_SIZE == 2
MinIndexRecords == 2
RecordLimit == 3

DbPool == {R1, R2, R3}

Tables == SeqsUpTo(DbPool, MaxRows)

BuildIds == 1..MaxBuilds

\* left: the record list the build left when it returned
NoBuild == [pc |-> "none", lastId |-> 0, left |-> <<>>]

\* what a record of the cache holds of the row with this id
cacheRow(id) ==
  [id |-> id,
   name |-> toLowerCase(salesTable[id].customerName),
   phone |-> digitsOnly(salesTable[id].phoneNumber)]

\* .gt('id', lastId).order('id').limit(BATCH_SIZE) on a table of `rows` rows
fetchBatch(rows, lastId) ==
  [k \in 1..(Min2(rows, lastId + BATCH_SIZE) - lastId) |-> cacheRow(lastId + k)]

\* the check build makes of the in-progress flag before anything else
alreadyLoading_never(loading) == FALSE

alreadyLoading(loading) == loading

inProgress(b) == builds[b].pc \in {"index", "sales"}

\* build returning without its finally block: the in-progress flag stays set
finishBuild_keepLoading(b, records, ready, pc) ==
  /\ cacheRecords' = records
  /\ isReady' = ready
  /\ isLoading' = isLoading
  /\ builds' = [builds EXCEPT ![b] = [pc |-> pc, lastId |-> 0, left |-> records]]

\* build returns: isReady as decided, isLoading reset by the finally block
finishBuild(b, records, ready, pc) ==
  /\ cacheRecords' = records
  /\ isReady' = ready
  /\ isLoading' = FALSE
  /\ builds' = [builds EXCEPT ![b] = [pc |-> pc, lastId |-> 0, left |-> records]]

\* loadFromSearchIndex gave up: loadFromSalesTable starts with an empty list
startSalesLoad(b) ==
  /\ cacheRecords' = <<>>
  /\ builds' = [builds EXCEPT ![b] = [pc |-> "sales", lastId |-> 0, left |-> <<>>]]
  /\ UNCHANGED <<isReady, isLoading>>

\* one more batch is awaited
nextBatch(b, records) ==
  /\ cacheRecords' = records
  /\ builds' = [builds EXCEPT ![b].lastId = records[Len(records)].id]
  /\ UNCHANGED <<isReady, isLoading>>

\* the batch loop goes on after this batch
hasMore(batch, records) ==
  /\ Len(batch) > 0
  /\ ~(Len(batch) < BATCH_SIZE)
  /\ ~(Len(records) >= RecordLimit)

\* searchCache.build is called (initSupabase always passes both credentials):
\* up to the first await of loadFromSearchIndex
BuildCall ==
  /\ idle
  /\ \E b \in BuildIds :
       /\ builds[b].pc = "none"
       /\ \A earlier \in 1..(b - 1) : builds[earlier].pc # "none"
       /\ IF alreadyLoading(isLoading)
          THEN /\ builds' = [builds EXCEPT ![b].pc = "skipped"]
               /\ UNCHANGED <<cacheRecords, isReady, isLoading>>
          ELSE /\ isLoading' = TRUE
               /\ cacheRecords' = <<>>
               /\ builds' = [builds EXCEPT ![b] = [pc |-> "index", lastId |-> 0,
                                                     left |-> <<>>]]
               /\ UNCHANGED isReady
  /\ UNCHANGED <<storeVars, req, hits, res, utilVars, salesTable, indexRows, statsVars, optionVars, invoked, hook>>

\* a batch of search_index arrives, or its fetch fails; like every step of
\* a build it is taken between requests, a request being handled in one step
IndexBatch ==
  /\ idle
  /\ \E b \in BuildIds, failed \in BOOLEAN :
       /\ builds[b].pc = "index"
       /\ IF failed
          THEN startSalesLoad(b)
          ELSE LET batch == fetchBatch(indexRows, builds[b].lastId)
                   records == cacheRecords \o batch
               IN IF hasMore(batch, records)
                  THEN nextBatch(b, records)
                  ELSE IF Len(records) >= MinIndexRecords
                       THEN finishBuild(b, records, TRUE, "done")
                       ELSE startSalesLoad(b)
  /\ UNCHANGED <<storeVars, req, hits, res, utilVars, salesTable, indexRows, statsVars, optionVars, invoked, hook>>

\* a batch of sales arrives, its fetch reports an error, or the client throws
SalesBatch ==
  /\ idle
  /\ \E b \in BuildIds, outcome \in {"data", "error", "throw"} :
       /\ builds[b].pc = "sales"
       /\ IF outcome = "throw"
          THEN finishBuild(b, cacheRecords, FALSE, "failed")
          ELSE IF outcome = "error"
          THEN finishBuild(b, cacheRecords, TRUE, "done")
          ELSE LET batch == fetchBatch(Len(salesTable), builds[b].lastId)
                   records == cacheRecords \o batch
               IN IF hasMore(batch, records)
                  THEN nextBatch(b, records)
                  ELSE finishBuild(b, records, TRUE, "done")
  /\ UNCHANGED <<storeVars, req, hits, res, utilVars, salesTable, indexRows, statsVars, optionVars, invoked, hook>>

\* the same with no pass skipping an id it already holds
RECURSIVE cachePass_noSkip(_, _, _, _, _)
cachePass_noSkip(results, i, maxResults, pass, terms) ==
  IF i > Len(cacheRecords) \/ Len(results) >= maxResults THEN results
  ELSE LET record == cacheRecords[i]
           found == CASE pass = "prefix" -> startsWith(record.name, terms.query)
                      [] pass = "phone" -> includes(record.phone, terms.digits)
                      [] OTHER -> includes(record.name, terms.query)
       IN cachePass_noSkip(IF found THEN Append(results, record.id) ELSE results,
                           i + 1, maxResults, pass, terms)

\* searchCache.search(query, maxResults): prefix matches on the name, then
\* phone matches, then name-contains matches, each pass in record order and
\* none past maxResults
RECURSIVE cachePass(_, _, _, _, _)
cachePass(results, i, maxResults, pass, terms) ==
  IF i > Len(cacheRecords) \/ Len(results) >= maxResults THEN results
  ELSE LET record == cacheRecords[i]
           found == CASE pass = "prefix" -> startsWith(record.name, terms.query)
                      [] pass = "phone" -> includes(record.phone, terms.digits)
                      [] OTHER -> includes(record.name, terms.query)
       IN cachePass(IF found /\ (pass = "prefix" \/ record.id \notin Range(results))
                      THEN Append(results, record.id) ELSE results,
                    i + 1, maxResults, pass, terms)

cacheSearch(query, maxResults) ==
  IF ~isReady \/ Len(query) < 2 THEN NULL
  ELSE LET terms == [query |-> trim(toLowerCase(query)), digits |-> digitsOnly(query)]
           byPrefix == cachePass(<<>>, 1, maxResults, "prefix", terms)
           byPhone == IF Len(terms.digits) >= 3 /\ Len(byPrefix) < maxResults
                      THEN cachePass(byPrefix, 1, maxResults, "phone", terms)
                      ELSE byPrefix
       IN IF Len(terms.query) >= 3 /\ Len(byPhone) < maxResults
          THEN cachePass(byPhone, 1, maxResults, "contains", terms)
          ELSE byPhone

MaxResults == 2

CacheQueries == {<<>>, Q_a, <<"a", "n">>, <<"a", "n", "n">>, <<"1", "2", "3">>}

\* searchCache.search(query, maxResults) called while builds come and go; the
\* request's limit holds maxResults
CacheSearchOp ==
  /\ idle
  /\ \E q \in CacheQueries, maxResults \in 1..MaxResults :
       /\ req' = [NoRequest EXCEPT !.filters.search = q,
                                   !.pagination = [page |-> 1, limit |-> maxResults]]
       /\ hits' = cacheSearch(q, maxResults)
  /\ UNCHANGED <<storeVars, res, utilVars, dbVars, statsVars, optionVars, invoked, hook>>

\* the server has started against a database with some rows
InitCache ==
  /\ InitStore
  /\ salesTable \in Tables
  /\ indexRows \in 0..Len(salesTable)
  /\ cacheRecords = <<>>
  /\ isReady = FALSE
  /\ isLoading = FALSE
  /\ builds = [b \in BuildIds |-> NoBuild]

NextCache ==
  \/ BuildCall
  \/ IndexBatch
  \/ SalesBatch
  \/ CacheSearchOp
  \/ Respond

SpecCache == InitCache /\ [][NextCache]_vars

\* the builds alone; every awaited batch fetch settles, so the continuation
\* of a build that waits for one is eventually run
NextBuilds == BuildCall \/ IndexBatch \/ SalesBatch

SpecBuilds ==
  /\ InitCache
  /\ [][NextBuilds]_vars
  /\ WF_vars(IndexBatch)
  /\ WF_vars(SalesBatch)

\* ------------------------------------------------------- databaseService
CacheMaxResults == 500
RemoteMaxResults == 200
ScanLimit == 100
DefaultTotal == 1000000

\* the PostgREST operators the queries use
inList(value, list) == \E k \in 1..Len(list) : list[k] = value

ilikePrefix(text, pattern) == startsWith(toLowerCase(text), toLowerCase(pattern))

ilikeContains(text, pattern) == includes(toLowerCase(text), toLowerCase(pattern))

\* the conditions every query puts on a row for the filters other than search
columnFilters(row, filters) ==
  /\ Len(filters.regions) > 0 => inList(row.customerRegion, filters.regions)
  /\ Len(filters.genders) > 0 => inList(row.gender, filters.genders)
  /\ Len(filters.categories) > 0 => inList(row.productCategory, filters.categories)
  /\ Len(filters.paymentMethods) > 0 => inList(row.paymentMethod, filters.paymentMethods)
  /\ Len(filters.tags) > 0 =>
       \E k \in 1..Len(filters.tags) : ilikeContains(row.tags, filters.tags[k])
  /\ filters.minAge # NONE => row.age >= filters.minAge
  /\ filters.maxAge # NONE => row.age <= filters.maxAge
  /\ filters.startDate # NONE => row.date >= filters.startDate
  /\ filters.endDate # NONE => row.date <= filters.endDate

\* the applyFilters closure of getFilteredSalesFromDB: a search of three or
\* more characters is a prefix match on the name, a shorter one is dropped
queryFilters(row, filters) ==
  /\ Len(filters.search) >= 3 => ilikePrefix(row.customerName, trim(filters.search))
  /\ columnFilters(row, filters)

\* the WHERE clause of the search_sales_with_filters function, which is
\* passed no tags
rpcWhere(row, filters) ==
  LET clean == toLowerCase(trim(filters.search))
  IN /\ Len(clean) >= 3 =>
          \/ startsWith(toLowerCase(row.customerName), clean)
          \/ includes(row.phoneNumber, clean)
     /\ columnFilters(row, [filters EXCEPT !.tags = <<>>])

sortColumn(sorting) ==
  CASE sorting.sortBy = "amount" -> "final_amount"
    [] sorting.sortBy = "customer" -> "customer_name"
    [] OTHER -> "date"

columnLess(a, b, column) ==
  CASE column = "final_amount" -> a.finalAmount < b.finalAmount
    [] column = "customer_name" -> localeCompare(a.customerName, b.customerName) < 0
    [] OTHER -> a.date < b.date

\* ORDER BY column; rows equal in the column come in id order
RECURSIVE orderBy(_, _, _)
orderBy(ids, column, asc) ==
  IF ids = {} THEN <<>>
  ELSE LET before(i, j) ==
             IF columnLess(salesTable[i], salesTable[j], column) THEN asc
             ELSE IF columnLess(salesTable[j], salesTable[i], column) THEN ~asc
             ELSE i < j
           first == CHOOSE i \in ids : \A j \in ids \ {i} : before(i, j)
       IN <<first>> \o orderBy(ids \ {first}, column, asc)

reverse(list) == [k \in 1..Len(list) |-> list[Len(list) + 1 - k]]

allIds == 1..Len(salesTable)

idsInOrder(ids) == SelectSeq([i \in allIds |-> i], LAMBDA i : i \in ids)

limitTo(list, n) == SubSeq(list, 1, Min2(Len(list), n))

\* the remote search strategies, in the order they are tried
Remotes == <<"fast_search", "search_with_ids", "search_index", "id_range_scan">>

remoteSearch(strategy, term) ==
  LET digits == digitsOnly(term)
      byPrefix == {i \in allIds : startsWith(toLowerCase(salesTable[i].customerName), term)}
      byPhone == {i \in allIds : Len(digits) >= 3 /\ includes(salesTable[i].phoneNumber, digits)}
      indexed == 1..indexRows
      byContains == {i \in allIds : includes(toLowerCase(salesTable[i].customerName), term)}
  IN CASE strategy = "fast_search" ->
            limitTo(idsInOrder(IF byPrefix # {} THEN byPrefix ELSE byPhone), RemoteMaxResults)
       [] strategy = "search_with_ids" ->
            limitTo(idsInOrder({i \in indexed :
                       \/ i \in byPrefix
                       \/ Len(digits) >= 3 /\ includes(cacheRow(i).phone, digits)
                       \/ Len(term) >= 3 /\ i \in byContains}), RemoteMaxResults)
       [] strategy = "search_index" ->
            limitTo(idsInOrder(indexed \cap byPrefix), RemoteMaxResults)
       [] OTHER ->
            limitTo(idsInOrder({i \in allIds :
                       \/ i \in byContains
                       \/ ilikeContains(salesTable[i].phoneNumber, term)}), ScanLimit)

\* strategies k.. of Remotes are tried until one finds ids
RECURSIVE tryRemotes(_, _, _)
tryRemotes(k, term, available) ==
  IF k > Len(Remotes) THEN NULL
  ELSE LET found == IF Remotes[k] \in available
                    THEN remoteSearch(Remotes[k], term) ELSE <<>>
       IN IF Len(found) > 0 THEN found ELSE tryRemotes(k + 1, term, available)

\* the ids the multi-strategy search settles on: the cache's answer when the
\* cache is ready, else the first remote strategy that finds any
matchingIdsOf(text, available) ==
  LET searchTerm == toLowerCase(trim(text))
      fromCache == IF isReady THEN cacheSearch(searchTerm, CacheMaxResults) ELSE NULL
  IN IF fromCache # NULL THEN fromCache ELSE tryRemotes(1, searchTerm, available)

\* the strategies of the multi-strategy search in the order the code tries them
Strategies == <<"cache">> \o Remotes

\* the remote strategies k.. that are invoked and what each one found: the
\* next is guarded by if (!matchingIds)
RECURSIVE remotesInvoked(_, _, _)
remotesInvoked(k, term, available) ==
  IF k > Len(Remotes) THEN <<>>
  ELSE LET found == IF Remotes[k] \in available
                    THEN remoteSearch(Remotes[k], term) ELSE <<>>
       IN <<[strategy |-> Remotes[k], ids |-> found]>>
            \o (IF Len(found) > 0 THEN <<>>
                ELSE remotesInvoked(k + 1, term, available))

\* the same with an empty answer of the cache taken for a missing one
strategiesInvoked_emptyIsMiss(text, available) ==
  LET searchTerm == toLowerCase(trim(text))
      fromCache == IF isReady THEN cacheSearch(searchTerm, CacheMaxResults) ELSE NULL
  IN (IF isReady THEN <<[strategy |-> "cache", ids |-> fromCache]>> ELSE <<>>)
       \o (IF fromCache # NULL /\ Len(fromCache) > 0 THEN <<>>
           ELSE remotesInvoked(1, searchTerm, available))

\* the strategies the multi-strategy search invokes, in order, each with what
\* it returned: the cache only if (cacheStatus.isReady), a remote one only
\* while matchingIds is still null
strategiesInvoked(text, available) ==
  LET searchTerm == toLowerCase(trim(text))
      fromCache == IF isReady THEN cacheSearch(searchTerm, CacheMaxResults) ELSE NULL
  IN (IF isReady THEN <<[strategy |-> "cache", ids |-> fromCache]>> ELSE <<>>)
       \o (IF fromCache # NULL THEN <<>>
           ELSE remotesInvoked(1, searchTerm, available))

activeFilterCount(filters) ==
  Cardinality({n \in {"search", "regions", "genders", "categories",
                      "paymentMethods", "tags"} : Len(filters[n]) > 0})
    + Cardinality({n \in {"minAge", "maxAge", "startDate", "endDate"} :
                     filters[n] # NONE})

\* Math.round(1000000 * Math.pow(0.35, activeFilterCount))
estimatedCount(n) ==
  CASE n = 0 -> 1000000 [] n = 1 -> 350000 [] n = 2 -> 122500
    [] n = 3 -> 42875 [] n = 4 -> 15006 [] n = 5 -> 5252 [] n = 6 -> 1838
    [] n = 7 -> 643 [] n = 8 -> 225 [] n = 9 -> 79 [] OTHER -> 28

DbPage(data, totalCount, pagination) ==
  [status |-> "ok", data |-> data,
   currentPage |-> pagination.page,
   totalPages |-> ceilDiv(totalCount, pagination.limit),
   totalItems |-> totalCount,
   itemsPerPage |-> pagination.limit,
   hasNextPage |-> pagination.page < ceilDiv(totalCount, pagination.limit),
   hasPrevPage |-> pagination.page > 1,
   searchStatus |-> ""]

\* the two results of a search that settled on no ids
NoMatches(pagination, searchStatus) ==
  [status |-> "ok", data |-> <<>>, currentPage |-> 1, totalPages |-> 0,
   totalItems |-> 0, itemsPerPage |-> pagination.limit,
   hasNextPage |-> FALSE, hasPrevPage |-> FALSE, searchStatus |-> searchStatus]

Thrown == [NoResult EXCEPT !.status = "error"]

FallThrough == [NoResult EXCEPT !.status = "fallthrough"]

range(list, from, to) == slice(list, from, to + 1)

\* getFilteredSalesFromDB(filters, sorting, pagination); env says which of
\* the remote calls it awaits succeed
getFilteredSalesFromDB(filters, sorting, pagination, env) ==
  LET page == pagination.page
      limit == pagination.limit
      offset == (page - 1) * limit
      column == sortColumn(sorting)
      asc == sorting.sortOrder = "asc"
      \* the search_sales_with_filters call made for three or more characters
      rpcRows == {i \in allIds : rpcWhere(salesTable[i], filters)}
      rpcData == range(orderBy(rpcRows, column, asc), offset, offset + limit - 1)
      hasFilters == activeFilterCount(filters) > 0
      hasSearch == Len(filters.search) >= 2
      \* the multi-strategy search
      matchingIds == matchingIdsOf(filters.search, env.available)
      idRows == {i \in Range(matchingIds) : columnFilters(salesTable[i], filters)}
      searchData == range(orderBy(idRows, column, asc), offset, offset + limit - 1)
      searched ==
        IF matchingIds = NULL /\ isLoading THEN NoMatches(pagination, "loading")
        ELSE IF matchingIds = NULL \/ Len(matchingIds) = 0
        THEN NoMatches(pagination, "")
        ELSE IF env.idsQuery THEN DbPage(searchData, Cardinality(idRows), pagination)
        ELSE FallThrough
      \* the direct query
      statsCount == IF env.stats /\ Len(salesTable) > 0 THEN Len(salesTable)
                    ELSE DefaultTotal
      knownCount == IF hasFilters THEN NONE ELSE statsCount
      isNearEnd == ~hasFilters /\ offset > (statsCount * 7) \div 10
      rows == {i \in allIds : queryFilters(salesTable[i], filters)}
      actualOffset == Max2(0, statsCount - offset - limit)
      actualLimit == Min2(limit, statsCount - offset)
      data ==
        IF isNearEnd
        THEN IF actualLimit <= 0 THEN <<>>
             ELSE reverse(range(orderBy(rows, column, ~asc), actualOffset,
                                actualOffset + actualLimit - 1))
        ELSE range(orderBy(rows, column, asc), offset, offset + limit - 1)
      useExactCount == activeFilterCount(filters) <= 1
      totalCount ==
        IF knownCount # NONE THEN knownCount
        ELSE IF useExactCount THEN Cardinality(rows)
        ELSE IF Len(data) < limit THEN offset + Len(data)
        ELSE Max2(estimatedCount(activeFilterCount(filters)), limit * 10)
      direct == IF env.query THEN DbPage(data, totalCount, pagination) ELSE Thrown
  IN IF Len(filters.search) >= 3 /\ env.rpc /\ Len(rpcData) > 0
     THEN DbPage(rpcData, Cardinality(rpcRows), pagination)
     ELSE IF hasSearch /\ searched.status # "fallthrough" THEN searched
     ELSE direct

\* whether the search_sales_with_filters call answers the request, so that
\* the multi-strategy search is never reached
rpcAnswers(filters, sorting, pagination, env) ==
  LET offset == (pagination.page - 1) * pagination.limit
      rpcRows == {i \in allIds : rpcWhere(salesTable[i], filters)}
      rpcData == range(orderBy(rpcRows, sortColumn(sorting), sorting.sortOrder = "asc"),
                       offset, offset + pagination.limit - 1)
  IN Len(filters.search) >= 3 /\ env.rpc /\ Len(rpcData) > 0

\* the requests made of the database path
Q_an == <<"a", "n">>
Q_ann == <<"a", "n", "n">>

DbQueries == {<<>>, Q_a, Q_an, Q_ann}

DbFilterSpecs ==
  {NoFilters,
   [NoFilters EXCEPT !.regions = <<North>>],
   [NoFilters EXCEPT !.regions = <<North>>, !.genders = <<Female>>]}

DbSortings == {DefaultSort, [sortBy |-> "date", sortOrder |-> "asc"]}

\* which awaited calls can matter to a request with this search text
Environments(q) ==
  [rpc : IF Len(q) >= 3 THEN BOOLEAN ELSE {FALSE},
   available : IF Len(q) >= 2 THEN SUBSET Range(Remotes) ELSE {{}},
   idsQuery : IF Len(q) >= 2 THEN BOOLEAN ELSE {TRUE},
   stats : IF Len(q) = 0 THEN BOOLEAN ELSE {TRUE},
   query : BOOLEAN]

\* salesService.getSalesData with the database in use: delegated to
\* getFilteredSalesFromDB, which reads the cache once, at the search step
QueryDB ==
  /\ idle
  /\ \E q \in DbQueries, f \in DbFilterSpecs, s \in DbSortings,
        p \in Paginations :
       \E env \in Environments(q) :
         LET filters == [f EXCEPT !.search = q]
         IN /\ req' = [filters |-> filters, sorting |-> s, pagination |-> p]
            /\ hits' = IF Len(q) >= 2 THEN matchingIdsOf(q, env.available) ELSE NULL
            /\ res' = getFilteredSalesFromDB(filters, s, p, env)
            /\ invoked' = IF Len(q) >= 2 /\ ~rpcAnswers(filters, s, p, env)
                          THEN strategiesInvoked(q, env.available) ELSE <<>>
  /\ UNCHANGED <<storeVars, utilVars, dbVars, statsVars, optionVars, hook>>

MaxDbRows == 2

DbTables == SeqsUpTo({R1, R3}, MaxDbRows)

\* the server has started against a database, the startup build not yet
InitDB ==
  /\ InitStore
  /\ salesTable \in DbTables
  /\ indexRows \in 0..Len(salesTable)
  /\ cacheRecords = <<>>
  /\ isReady = FALSE
  /\ isLoading = FALSE
  /\ builds = [b \in BuildIds |-> NoBuild]

\* the build that initSupabase schedules at startup
StartupBuild ==
  /\ builds[1].pc = "none"
  /\ BuildCall

NextDB ==
  \/ StartupBuild
  \/ IndexBatch
  \/ SalesBatch
  \/ QueryDB
  \/ Respond

SpecDB == InitDB /\ [][NextDB]_vars

\* ============================================ salesController.js (getSales)
\* the page size taken when the limit parameter is missing or not a number
DefaultLimit == 10
\* the largest page size the controller lets through
MaxExportLimit == 1000000
\* the largest page size the README documents
DocumentedMaxLimit == 100

\* parseInt(raw, 10) || dflt: a text that is no number, and 0, give dflt
parseIntOr(raw, dflt) == IF isNaN(raw) \/ raw = 0 THEN dflt ELSE raw

\* the sorting object of getSales: the key as sent, the order folded
controllerSorting(sortBy, sortOrder) ==
  [sortBy |-> sortBy,
   sortOrder |-> IF toLowerCase(sortOrder) = <<"a", "s", "c">> THEN "asc" ELSE "desc"]

\* the pagination object of getSales
controllerPagination(page, limit) ==
  LET requestedLimit == parseIntOr(limit, DefaultLimit)
  IN [page |-> Max2(1, parseIntOr(page, 1)),
      limit |-> Min2(MaxExportLimit, Max2(1, requestedLimit))]

\* the page and limit parameters as sent: a text that is no number (NaN
\* after parseInt), numbers below 1, in range, and above the largest size
RawPages == {NaN, -1, 0, 1, 2}
RawLimits == {NaN, -1, 0, 1, 2, DocumentedMaxLimit + 1, MaxExportLimit + 1}
RawSortKeys == SortKeys \cup {"bogus"}
RawSortOrders == {<<"a", "s", "c">>, <<"A", "S", "C">>, <<"d", "e", "s", "c">>}

\* GET /api/sales: parse the query string, call the service, build the body
GetSales ==
  /\ idle /\ call = NoCall
  /\ \E q \in {<<>>, Q_a}, sortBy \in RawSortKeys, sortOrder \in RawSortOrders,
        page \in RawPages, limit \in RawLimits :
    LET filters == [NoFilters EXCEPT !.search = trim(q)]
        sorting == controllerSorting(sortBy, sortOrder)
        pagination == controllerPagination(page, limit)
    IN /\ call' = [fn |-> "getSales", data |-> <<page, limit>>, filters |-> filters]
       /\ req' = [filters |-> filters, sorting |-> sorting, pagination |-> pagination]
       /\ hits' = IF Len(filters.search) > 0
                  THEN search(searchIndex, filters.search, salesData) ELSE NULL
       /\ res' = getSalesDataFiltered(searchIndex, salesData, filters, sorting,
                                      pagination)
       /\ salesData' = storeAfter(salesData, filters, sorting,
                                  ~sortSkipped(filters, sorting))
       /\ UNCHANGED <<searchIndex, installedBy, ret>>
  /\ UNCHANGED <<dbVars, statsVars, optionVars, invoked, hook>>

\* res.json: the response is sent, the request is over
SendJson ==
  /\ call.fn = "getSales"
  /\ call' = NoCall
  /\ req' = NoRequest /\ hits' = NULL /\ res' = NoResult
  /\ UNCHANGED <<storeVars, ret>>
  /\ UNCHANGED <<dbVars, statsVars, optionVars, invoked, hook>>

NextController == LoadCSV \/ GetSales \/ SendJson

SpecController == Init /\ [][NextController]_vars

\* ================================================ salesService.js (getStats)
\* checkCacheValidity's test: the collection size is not the remembered one
sizeChanged_never(data, last) == FALSE

sizeChanged(data, last) == Len(data) # last

\* checkCacheValidity: the statistics cache and the remembered size after it
checkCacheValidity(data, cache, last) ==
  IF sizeChanged(data, last)
  THEN [statsCache |-> <<>>, lastDataLength |-> Len(data)]
  ELSE [statsCache |-> cache, lastDataLength |-> last]

\* invalidateCache inside checkCacheValidity, for one of the two caches
invalidated(cache, data, last) == IF sizeChanged(data, last) THEN <<>> ELSE cache

\* data.reduce((sum, item) => sum + (item[field] || 0), 0)
RECURSIVE reduceSum(_, _)
reduceSum(data, field) ==
  IF data = <<>> THEN 0 ELSE Head(data)[field] + reduceSum(Tail(data), field)

\* Math.round(totalSales / data.length * 100) / 100, in hundredths
averageOrderValue(totalSales, length) ==
  IF length > 0 THEN (200 * totalSales + length) \div (2 * length) ELSE 0

\* the statistics getStats computes; the rows of the model carry no total
\* amount, so totalDiscount is left out
computeStats(data) ==
  [totalRecords |-> Len(data),
   totalSales |-> reduceSum(data, "finalAmount"),
   totalQuantity |-> reduceSum(data, "quantity"),
   averageOrderValue |-> averageOrderValue(reduceSum(data, "finalAmount"), Len(data))]

\* getStats on the in-memory path: check the cache, return it or recompute
GetStats ==
  /\ idle /\ call = NoCall
  /\ LET checked == checkCacheValidity(salesData, statsCache, lastDataLength)
         stats == IF checked.statsCache # <<>> THEN checked.statsCache
                  ELSE <<computeStats(salesData)>>
     IN /\ statsCache' = stats
        /\ lastDataLength' = checked.lastDataLength
        /\ call' = [fn |-> "getStats", data |-> <<>>, filters |-> NoFilters]
        /\ ret' = stats
        /\ filterOptionsCache' = invalidated(filterOptionsCache, salesData, lastDataLength)
  /\ UNCHANGED <<storeVars, req, hits, res, dbVars, filterOptionsPrecomputed, invoked, hook>>

\* the collection is replaced between two calls
ReplaceCollection == call = NoCall /\ SetSalesData

NextStats == ReplaceCollection \/ GetStats \/ Return

SpecStats == Init /\ [][NextStats]_vars

\* ---------------------------------------- salesService.js (getFilterOptions)
\* getFilterOptions on the in-memory path: the options computed at load when
\* there are some, else the cache, recomputed after checkCacheValidity
GetFilterOptions ==
  /\ idle /\ call = NoCall
  /\ call' = [fn |-> "getFilterOptions", data |-> <<>>, filters |-> NoFilters]
  /\ IF filterOptionsPrecomputed # <<>>
     THEN /\ ret' = filterOptionsPrecomputed
          /\ UNCHANGED <<statsVars, filterOptionsCache>>
     ELSE LET checked == invalidated(filterOptionsCache, salesData, lastDataLength)
              options == IF checked # <<>> THEN checked
                         ELSE <<filterOptionsOf(salesData)>>
          IN /\ statsCache' = invalidated(statsCache, salesData, lastDataLength)
             /\ lastDataLength' = Len(salesData)
             /\ filterOptionsCache' = options
             /\ ret' = options
  /\ UNCHANGED <<storeVars, req, hits, res, dbVars, filterOptionsPrecomputed, invoked, hook>>

\* loadSalesData between two calls, with and without a CSV file
ReloadCSV == call = NoCall /\ LoadCSV

ReloadSample == call = NoCall /\ LoadSample

NextOptions ==
  \/ ReloadCSV
  \/ ReloadSample
  \/ ReplaceCollection
  \/ GetFilterOptions
  \/ Return

SpecOptions == Init /\ [][NextOptions]_vars

\* ------------------------ salesService.js (getFilteredStats, exportSalesData)
\* getFilteredStats answering from the statistics cache when nothing filters
getFilteredStats_fromCache(ix, data, filters) ==
  IF Len(filters.search) = 0 /\ ~hasAnyFilter(filters) /\ statsCache # <<>>
  THEN statsCache
  ELSE LET m == matched(ix, data, filters)
       IN IF m = THROWN THEN THROWN ELSE <<computeStats(m)>>

\* getFilteredStats on the in-memory path: search, filter, add up
getFilteredStats(ix, data, filters) ==
  LET m == matched(ix, data, filters)
  IN IF m = THROWN THEN THROWN ELSE <<computeStats(m)>>

GetFilteredStats ==
  /\ idle /\ call = NoCall
  /\ \E q \in Queries, f \in FilterSpecs :
       LET filters == [f EXCEPT !.search = q]
       IN /\ call' = [fn |-> "getFilteredStats", data |-> <<>>, filters |-> filters]
          /\ ret' = getFilteredStats(searchIndex, salesData, filters)
  /\ UNCHANGED <<storeVars, req, hits, res, dbVars, statsVars, optionVars, invoked, hook>>

\* the records exportSalesData hands to onBatch at a time
EXPORT_BATCH_SIZE == 10000

\* the batches onBatch receives: data.slice(i, i + BATCH_SIZE) for each i
RECURSIVE batchesFrom(_, _)
batchesFrom(data, i) ==
  IF i >= Len(data) THEN <<>>
  ELSE <<slice(data, i, i + EXPORT_BATCH_SIZE)>>
         \o batchesFrom(data, i + EXPORT_BATCH_SIZE)

\* exportSalesData on the in-memory path: search, filter, sort, send batches;
\* the request holds the sorting, ret the batches sent
ExportSalesData ==
  /\ idle /\ call = NoCall
  /\ \E q \in Queries, f \in FilterSpecs, s \in RequestSortings :
       LET filters == [f EXCEPT !.search = q]
           m == matched(searchIndex, salesData, filters)
       IN /\ call' = [fn |-> "exportSalesData", data |-> <<s.sortBy, s.sortOrder>>,
                      filters |-> filters]
          /\ ret' = IF m = THROWN THEN THROWN
                    ELSE batchesFrom(applySorting(m, s), 0)
          /\ salesData' = storeAfter(salesData, filters, s, m # THROWN)
  /\ UNCHANGED <<searchIndex, installedBy, req, hits, res, dbVars, statsVars,
                 optionVars, invoked, hook>>

\* getSalesData between two calls
QueryCall == call = NoCall /\ Query

NextFrame ==
  \/ ReloadSample
  \/ QueryCall
  \/ GetFilteredStats
  \/ ExportSalesData
  \/ Respond
  \/ Return

SpecFrame == Init /\ [][NextFrame]_vars

NextFilteredStats ==
  \/ ReloadSample
  \/ GetStats
  \/ GetFilteredStats
  \/ Return

SpecFilteredStats == Init /\ [][NextFilteredStats]_vars

\* ---------------------------------------------------------------------------
\* useFilters.js: the client's filters, sorting and pagination. The state
\* setters called in one callback are applied together.

restVars == <<storeVars, req, hits, res, utilVars, dbVars, statsVars, optionVars,
              invoked>>

setFilters(f) == [hook EXCEPT !.filters = f]

pageReset(h) == [h EXCEPT !.pagination.page = 1]

ClientSearches == {<<>>, Q_a}

ClientValues ==
  [regions |-> {<<>>, <<North>>}, genders |-> {<<>>, <<Female>>}]

ClientAges == {NONE, 30}

ClientDates == {NONE, 4}

ClientSortings == [sortBy : {"date", "amount"}, sortOrder : {"asc", "desc"}]

ClientLimits == {InitialLimit, 2 * InitialLimit}

updateSearch ==
  /\ \E searchTerm \in ClientSearches :
       hook' = pageReset(setFilters([hook.filters EXCEPT !.search = searchTerm]))
  /\ UNCHANGED restVars

updateFilter ==
  /\ \E filterName \in DOMAIN ClientValues :
       \E values \in ClientValues[filterName] :
         hook' = pageReset(setFilters([hook.filters EXCEPT ![filterName] = values]))
  /\ UNCHANGED restVars

updateAgeRange ==
  /\ \E minAge \in ClientAges, maxAge \in ClientAges :
       hook' = pageReset(setFilters([hook.filters EXCEPT !.minAge = minAge,
                                                          !.maxAge = maxAge]))
  /\ UNCHANGED restVars

updateDateRange ==
  /\ \E startDate \in ClientDates, endDate \in ClientDates :
       hook' = pageReset(setFilters([hook.filters EXCEPT !.startDate = startDate,
                                                          !.endDate = endDate]))
  /\ UNCHANGED restVars

\* setFilters(initialFilters), and nothing else
clearFilters ==
  /\ hook' = setFilters(initialFilters)
  /\ UNCHANGED restVars

updateSorting ==
  /\ \E s \in ClientSortings : hook' = [hook EXCEPT !.sorting = s]
  /\ UNCHANGED restVars

updatePage ==
  /\ \E page \in 1..MaxPage : hook' = [hook EXCEPT !.pagination.page = page]
  /\ UNCHANGED restVars

updateLimit ==
  /\ \E limit \in ClientLimits :
       hook' = [hook EXCEPT !.pagination = [page |-> 1, limit |-> limit]]
  /\ UNCHANGED restVars

NextClient ==
  \/ updateSearch
  \/ updateFilter
  \/ updateAgeRange
  \/ updateDateRange
  \/ clearFilters
  \/ updateSorting
  \/ updatePage
  \/ updateLimit

SpecClient == Init /\ [][NextClient]_vars

\* ================================================================== claims
queried == req # NoRequest
hasText == Len(req.filters.search) > 0

RECURSIVE concatPages(_, _, _, _)
concatPages(list, limit, page, totalPages) ==
  IF page > totalPages THEN <<>>
  ELSE applyPagination(list, [page |-> page, limit |-> limit])
         \o concatPages(list, limit, page + 1, totalPages)

noRecordTwice(list) ==
  \A i, j \in 1..Len(list) :
    (i # j /\ list[i] # UNDEFINED) => list[i] # list[j]

\* C1: for the stored collection and the text query, filters and page size
\* of the request just answered, under every sort key and direction: the
\* data of pages 1..totalPages of getSalesData, concatenated, is the whole
\* sorted matching list, nothing twice and nothing left out, and totalItems
\* is its length.
C1_PaginationExact ==
  (queried /\ res.status = "ok") =>
   LET hitList == matched(searchIndex, salesData, req.filters) IN
    \A sorting \in Sortings :
      LET full == sortStage(hitList, req.filters, sorting)
          one == pageStage(full, req.pagination)
          pages == concatPages(full, req.pagination.limit, 1, one.totalPages)
      IN /\ pages = full
         /\ noRecordTwice(pages)
         /\ one.totalItems = Len(full)
         /\ one.data = applyPagination(full, req.pagination)
         /\ Range(full) \subseteq Range(salesData) \cup {UNDEFINED}

C1_Witness ==
  /\ queried /\ res.status = "ok" /\ hasText
  /\ res.totalPages >= 2 /\ res.currentPage = 2 /\ Len(res.data) >= 1

RECURSIVE isSortedDesc(_)
isSortedDesc(data) ==
  \/ Len(data) <= 1
  \/ /\ getTime(data[1].date) >= getTime(data[2].date)
     /\ isSortedDesc(Tail(data))

\* C3: with sort (date, desc), no text query and no structural filter, the
\* page returned over a loaded collection is the page of an explicit
\* applySorting(collection, date desc).
C3_SortSkipEquivalence ==
  (/\ queried /\ res.status = "ok"
   /\ installedBy \in {"loadCSV", "loadSample"}
   /\ req.sorting = DefaultSort /\ ~hasText /\ ~hasActiveFilters(req.filters))
  => res.data = applyPagination(applySorting(salesData, DefaultSort),
                                req.pagination)

\* C4: whichever operation installed the stored collection (CSV load,
\* sample-data load, setSalesData), the collection is sorted by date
\* descending.
C4_NaturalOrder ==
  installedBy \in {"loadCSV", "loadSample", "setSalesData"}
    => isSortedDesc(salesData)

\* C7: a text query issued over an installed collection while the index is
\* not built gets an 'index not ready' status, never an ordinary page.
C7_NotReadyStatus ==
  (queried /\ hasText /\ installedBy # "none" /\ ~searchIndex.isBuilt)
    => (res.status = "ok" /\ res.searchStatus # "")

\* C8: every position the index returns for the current collection is a
\* position of that collection whose indexed form is that of the record
\* stored there.
C8_NoStalePositions ==
  (queried /\ hasText) =>
    \A k \in 1..Len(hits) :
      /\ hits[k] >= 0 /\ hits[k] < Len(salesData)
      /\ searchIndex.normalizedData[hits[k] + 1]
           = normalizedOf(salesData[hits[k] + 1])

\* the words of a record's name and its phone digits, as the claims read them
nameWords(record) == Range(splitWords(toLowerCase(record.customerName)))
phoneDigitsOf(record) == digitsOnly(record.phoneNumber)

soundHit(i, query) ==
  LET nq == trim(toLowerCase(query))
      record == salesData[i + 1]
  IN \/ \E w \in nameWords(record) : startsWith(w, nq)
     \/ /\ Len(digitsOnly(nq)) >= 3
        /\ includes(phoneDigitsOf(record), digitsOnly(nq))
     \/ /\ indexCandidates(searchIndex, nq) = <<>>
        /\ \/ includes(toLowerCase(record.customerName), nq)
           \/ includes(toLowerCase(record.phoneNumber), nq)

\* C2: every position search returns on a built index names a record with a
\* name word starting with the normalised query, or whose phone digits
\* contain the query's digits (3 or more), or, when the index lookups found
\* nothing, whose name or phone contains the query.
C2_SearchSoundness ==
  (queried /\ hasText /\ searchIndex.isBuilt /\ hits # NULL) =>
    \A k \in 1..Len(hits) :
      /\ hits[k] >= 0 /\ hits[k] < Len(salesData)
      /\ soundHit(hits[k], req.filters.search)

\* what a filter specification asks of one record
given(bound) == bound # NONE /\ bound # NaN

passesEnum(value, requested) ==
  Len(requested) = 0
    \/ \E k \in 1..Len(requested) :
         toLowerCase(requested[k]) = toLowerCase(value)

tagSetOf(record) ==
  {t \in {toLowerCase(trim(piece)) : piece \in Range(split(record.tags, ","))} :
     t # <<>>}

passesTags(record, requested) ==
  Len(requested) = 0
    \/ \E k \in 1..Len(requested) : toLowerCase(requested[k]) \in tagSetOf(record)

passesAge(record, f) ==
  /\ given(f.minAge) => record.age >= f.minAge
  /\ given(f.maxAge) => record.age <= f.maxAge

passesDate(record, f) ==
  /\ given(f.startDate) => (record.date # InvalidDate /\ record.date >= f.startDate)
  /\ given(f.endDate) =>
       (record.date # InvalidDate /\ record.date < f.endDate + HalfDaysPerDay)

passesAll(record, f) ==
  /\ passesEnum(record.customerRegion, f.regions)
  /\ passesEnum(record.gender, f.genders)
  /\ passesEnum(record.productCategory, f.categories)
  /\ passesEnum(record.paymentMethod, f.paymentMethods)
  /\ passesTags(record, f.tags)
  /\ passesAge(record, f)
  /\ passesDate(record, f)

\* C5: a record is in the output of applyFilters(records, f) exactly when it
\* passes every active predicate of f at once: each enumerated field equal,
\* ignoring case, to one of the requested values; the tag set meeting the
\* requested tags; the age within the given bounds.
C5_FilterSemantics ==
  call.fn = "applyFilters" =>
    /\ Range(ret) = {r \in Range(call.data) : passesAll(r, call.filters)}
    /\ Len(ret) = Cardinality(Range(ret))

C5_Witness ==
  /\ call.fn = "applyFilters"
  /\ Len(call.filters.regions) > 0 /\ Len(call.filters.tags) > 0
  /\ given(call.filters.minAge) /\ given(call.filters.maxAge)
  /\ Len(call.data) = 2 /\ Len(ret) = 1

\* C6: every page result reports currentPage equal to the requested page,
\* totalPages = ceil(totalItems / pageSize), hasNextPage = (currentPage <
\* totalPages) and hasPrevPage = (currentPage > 1), on every return branch.
C6_PageMetadata ==
  (queried /\ res.status = "ok") =>
    /\ res.currentPage = req.pagination.page
    /\ res.totalPages = ceilDiv(res.totalItems, req.pagination.limit)
    /\ res.hasNextPage = (res.currentPage < res.totalPages)
    /\ res.hasPrevPage = (res.currentPage > 1)

\* the rows of the sales table that pass the request's filters
filteredRows == {i \in allIds : columnFilters(salesTable[i], req.filters)}

\* C9: the totalItems of a result is the exact number of rows matching the
\* query and the filters, never an estimate or a capped count: with no
\* search text it is the number of rows passing the filters, and with one
\* it is never more than that.
C9_ExactTotal ==
  (queried /\ res.status = "ok") =>
    IF hasText THEN res.totalItems <= Cardinality(filteredRows)
    ELSE res.totalItems = Cardinality(filteredRows)

\* C10: SearchCache.build never overlaps with itself: at most one build is in
\* progress, isLoading says whether one is, and a call made while isLoading
\* is true returns at once, leaving the record list and the flags as they
\* were and starting no load.
C10_BuildNeverOverlaps ==
  /\ [](/\ Cardinality({b \in DOMAIN builds : inProgress(b)}) <= 1
        /\ isLoading <=> \E b \in DOMAIN builds : inProgress(b))
  /\ [][\A b \in DOMAIN builds :
          (isLoading /\ builds[b].pc = "none" /\ builds'[b].pc # "none") =>
            /\ builds'[b].pc = "skipped"
            /\ cacheRecords' = cacheRecords
            /\ isReady' = isReady
            /\ isLoading' = isLoading]_vars

C10_Witness ==
  \E b \in DOMAIN builds, c \in DOMAIN builds :
    /\ inProgress(b)
    /\ Len(cacheRecords) > 0
    /\ builds[c].pc = "skipped"

\* C11: a search interleaved with builds never sees a partly filled cache:
\* whenever search returns a list (not null), the record list it ran over is
\* the list some finished build left, also while a rebuild is under way.
C11_NoPartialIndex ==
  (queried /\ hits # NULL) =>
    \E b \in DOMAIN builds : builds[b].pc = "done" /\ cacheRecords = builds[b].left

\* the result of the handled request's first page
firstPage ==
  getSalesDataFiltered(searchIndex, salesData, req.filters, req.sorting,
                       [req.pagination EXCEPT !.page = 1])

\* C12: a page number beyond the last page of the (possibly filtered) result
\* is no error: the result has no records, hasNextPage = false and the
\* totalItems of page 1 of the same request.
C12_PageBeyondRange ==
  (queried /\ firstPage.status = "ok"
     /\ req.pagination.page > firstPage.totalPages) =>
    /\ res.status = "ok"
    /\ res.data = <<>>
    /\ res.hasNextPage = FALSE
    /\ res.totalItems = firstPage.totalItems

C12_Witness ==
  /\ queried /\ res.status = "ok"
  /\ res.totalItems > 0
  /\ hasActiveFilters(req.filters)
  /\ req.pagination.page > res.totalPages
  /\ res.data = <<>>

\* the fields a filter specification sets, and the specification cut down
\* to some of them
activeFields(f) == {n \in DOMAIN f : f[n] # NoFilters[n]}

restrictedTo(f, fields) ==
  [n \in DOMAIN f |-> IF n \in fields THEN f[n] ELSE NoFilters[n]]

\* C13: filters over different fields compose: applyFilters(records, f1 and
\* f2) returns the same records in the same order as applyFilters(
\* applyFilters(records, f1), f2), for every way of cutting the filter
\* specification into two specifications over different fields.
C13_FilterConjunction ==
  call.fn = "applyFilters" =>
    \A fields \in SUBSET activeFields(call.filters) :
      LET f1 == restrictedTo(call.filters, fields)
          f2 == restrictedTo(call.filters, activeFields(call.filters) \ fields)
      IN ret = applyFilters(applyFilters(call.data, f1), f2)

C13_Witness ==
  /\ call.fn = "applyFilters"
  /\ {"regions", "tags", "maxAge"} \subseteq activeFields(call.filters)
  /\ Len(call.data) = 2 /\ Len(ret) = 1
  /\ Len(applyFilters(call.data, restrictedTo(call.filters, {"regions"}))) = 2

\* the handled text query as search normalises it, and what strategies 1
\* and 2 find for it
normalizedText == trim(toLowerCase(req.filters.search))

candidates == indexCandidates(searchIndex, normalizedText)

searched == queried /\ hasText /\ searchIndex.isBuilt /\ hits # NULL

\* C14: when the word index and the phone index together find no candidate,
\* search returns every record whose lowercased name or phone contains the
\* query; when they find some, the result is those candidates and nothing
\* a scan would add.
C14_FallbackCompleteness ==
  searched =>
    IF candidates = <<>>
    THEN \A i \in 1..Len(salesData) :
           (\/ includes(toLowerCase(salesData[i].customerName), normalizedText)
            \/ includes(toLowerCase(salesData[i].phoneNumber), normalizedText))
             => (i - 1) \in Range(hits)
    ELSE hits = candidates

C14_Witness ==
  /\ searched
  /\ candidates = <<>>
  /\ Len(salesData) >= 2
  /\ Len(hits) >= 1 /\ Len(hits) < Len(salesData)
  /\ \E k \in 1..Len(hits) :
       ~includes(toLowerCase(salesData[hits[k] + 1].customerName), normalizedText)

\* C15: on a built index the result of search holds the position of every
\* record with a name word that starts with the normalised query and, when
\* the query has 3 to 6 digits, of every record whose phone digits start
\* with them.
C15_IndexHitCompleteness ==
  searched =>
    \A i \in 1..Len(salesData) :
      LET digits == digitsOnly(normalizedText)
      IN (\/ \E w \in nameWords(salesData[i]) : startsWith(w, normalizedText)
          \/ /\ Len(digits) >= 3 /\ Len(digits) <= 6
             /\ startsWith(phoneDigitsOf(salesData[i]), digits))
           => (i - 1) \in Range(hits)

C15_Witness ==
  /\ searched
  /\ Len(hits) = 2 /\ Len(salesData) = 3
  /\ \E i \in 1..Len(salesData) :
       /\ (i - 1) \in Range(hits)
       /\ ~startsWith(toLowerCase(salesData[i].customerName), normalizedText)
       /\ \E w \in nameWords(salesData[i]) : startsWith(w, normalizedText)

\* where a record stands in the stored collection
positionOf(record) == CHOOSE i \in 1..Len(salesData) : salesData[i] = record

\* the whole list the handled request's page was cut from
fullList ==
  sortedMatched(searchIndex, salesData, req.filters, req.sorting)

\* C16: sorting is stable with ties broken by collection order: two records
\* with equal sort keys come out in the order they have in the stored
\* collection, also when a text query narrowed the candidates first.
C16_SortStability ==
  (queried /\ res.status = "ok" /\ Range(fullList) \subseteq Range(salesData)) =>
    \A a \in 1..Len(fullList), b \in 1..Len(fullList) :
      (a < b /\ comparison(fullList[a], fullList[b], req.sorting.sortBy) = 0)
        => positionOf(fullList[a]) < positionOf(fullList[b])

\* the parameters of the request being served, as they were sent
rawPage == call.data[1]
rawLimit == call.data[2]

\* a request the specification calls out of bounds
outOfBounds ==
  \/ ~isNaN(rawPage) /\ rawPage < 1
  \/ ~isNaN(rawLimit) /\ (rawLimit < 1 \/ rawLimit > MaxExportLimit)
  \/ req.sorting.sortBy \notin SortKeys

\* C17: a request with a page number below 1, a page size outside the bounds
\* or a sort key that is not sortable never produces a normal page result.
C17_InvalidInputRejected ==
  (call.fn = "getSales" /\ outOfBounds) => res.status # "ok"

\* a date bound that takes part in the filtering: sent and parseable
activeBound(bound) == bound # NONE /\ bound # InvalidDate

\* the date-range predicate as the specification words it
inDateRange(record, f) ==
  /\ record.date # InvalidDate
  /\ activeBound(f.startDate) => record.date >= f.startDate
  /\ activeBound(f.endDate) => record.date <= endOfDay(f.endDate)

\* C18: with a start and/or end date bound active, a record passes iff its
\* date is parseable, not before the start and not after the end of the end
\* date's day; a record with an unparseable date is excluded.
C18_DateRange ==
  (call.fn = "applyFilters"
     /\ (activeBound(call.filters.startDate) \/ activeBound(call.filters.endDate))) =>
    /\ ret = SelectSeq(call.data,
                LAMBDA r : passesEnum(r.gender, call.filters.genders)
                             /\ inDateRange(r, call.filters))
    /\ \A k \in 1..Len(ret) : ret[k].date # InvalidDate

\* an end bound on day 4 keeps the row of that day's second half and drops
\* the row without a date
C18_Witness ==
  /\ call.fn = "applyFilters"
  /\ call.filters.endDate = 4 /\ call.filters.startDate = 4
  /\ call.data = <<R5, R6>>
  /\ ret = <<R6>>

\* the query of the request is empty once trimmed
blankQuery == Len(trim(req.filters.search)) = 0

\* what applySearch hands on for the request
found == applySearch(searchIndex, salesData, req.filters.search)

\* the query matches nothing: the two indexes give no candidate and no
\* record holds the query in its name, its phone or its phone digits
noRecordMatches ==
  /\ candidates = <<>>
  /\ \A i \in 1..Len(salesData) :
       LET digits == digitsOnly(normalizedText)
       IN /\ ~includes(toLowerCase(salesData[i].customerName), normalizedText)
          /\ ~includes(toLowerCase(salesData[i].phoneNumber), normalizedText)
          /\ ~(Len(digits) >= 3 /\ includes(phoneDigitsOf(salesData[i]), digits))

\* C19: an empty or whitespace-only query makes search return null and
\* applySearch the whole collection; a non-empty query never returns null,
\* and with no matching record it returns the empty list.
C19_EmptyQuerySentinel ==
  queried =>
    /\ blankQuery => (hits = NULL /\ found = salesData)
    /\ ~blankQuery =>
         /\ hits # NULL
         /\ Len(found) = Len(hits)
         /\ noRecordMatches => (hits = <<>> /\ found = <<>>)

\* a whitespace-only query on a collection of two records
C19_Witness ==
  /\ queried
  /\ req.filters.search = <<" ">>
  /\ hits = NULL
  /\ Len(salesData) = 2
  /\ found = salesData

\* a call of getStats starts in this step
statsCalled == call.fn = "none" /\ call'.fn = "getStats"

\* the collection size no longer is the size the cached statistics were
\* computed for, or nothing was computed yet
statsStale == statsCache = <<>> \/ statsCache[1].totalRecords # Len(salesData)

\* C20: after any sequence of collection replacements and getStats calls,
\* getStats returns statistics recomputed from the current collection when
\* its size differs from the size at the last computation, and the cached
\* snapshot when the size is unchanged.
C20_StatsCacheInvalidation ==
  [][statsCalled =>
       IF statsStale THEN ret' = <<computeStats(salesData)>> /\ statsCache' = ret'
       ELSE ret' = statsCache /\ statsCache' = statsCache]_vars

\* getStats answered from the cache after the collection was replaced by
\* another one of the same size
C20_Witness ==
  /\ call.fn = "getStats"
  /\ Len(salesData) = 2
  /\ ret = statsCache
  /\ ret[1].totalRecords = 2
  /\ ret # <<computeStats(salesData)>>

\* the distinct non-empty values of a field in the current collection
valuesPresent(field) ==
  {salesData[k][field] : k \in 1..Len(salesData)} \ {<<>>}

\* the tags of a record as written: the trimmed, non-empty pieces
tagSetOfCased(record) ==
  {trim(piece) : piece \in Range(split(record.tags, ","))} \ {<<>>}

\* a list is the sorted list of a set: the same values, none twice, ascending
sortedListOf(list, set) ==
  /\ Range(list) = set
  /\ Len(list) = Cardinality(set)
  /\ \A k \in 1..(Len(list) - 1) : codeUnitLess(list[k], list[k + 1])

\* C21: getFilterOptions on the in-memory path returns, for each filterable
\* field, exactly the sorted set of distinct non-empty values present in the
\* current collection, whatever loads and replacements came before.
C21_FilterOptionsReflectCollection ==
  call.fn = "getFilterOptions" =>
    /\ sortedListOf(ret[1].regions, valuesPresent("customerRegion"))
    /\ sortedListOf(ret[1].genders, valuesPresent("gender"))
    /\ sortedListOf(ret[1].categories, valuesPresent("productCategory"))
    /\ sortedListOf(ret[1].paymentMethods, valuesPresent("paymentMethod"))
    /\ sortedListOf(ret[1].tags,
                    UNION {tagSetOfCased(salesData[k]) : k \in 1..Len(salesData)})

\* a call of getSalesData, getFilteredStats or exportSalesData starts
requestStarts ==
  \/ req = NoRequest /\ req' # NoRequest
  \/ call.fn = "none" /\ call'.fn \in {"getFilteredStats", "exportSalesData"}

\* C22: no call of getSalesData, getFilteredStats or exportSalesData changes
\* the stored collection (contents or order) or the search index.
C22_RequestsLeaveStore ==
  [][requestStarts => (salesData' = salesData /\ searchIndex' = searchIndex)]_vars

\* a request without query or filter, sorted other than the stored order, was
\* served from the stored array
C22_Witness ==
  /\ queried /\ res.status = "ok"
  /\ ~hasText /\ ~hasAnyFilter(req.filters)
  /\ req.sorting # DefaultSort
  /\ Len(salesData) >= 2
  /\ req.pagination = [page |-> 1, limit |-> 2]
  /\ res.data # SubSeq(salesData, 1, 2)

\* C23: getFilteredStats(f).totalRecords is the totalItems of getSalesData
\* for f with any sorting and page, getFilteredStats without filter and
\* query equals freshly computed statistics of the collection, and the call
\* neither reads nor writes the statistics cache.
C23_FilteredStatsPerRequest ==
  /\ [](call.fn = "getFilteredStats" =>
          /\ ret # THROWN
          /\ \A s \in RequestSortings, p \in Paginations :
               getSalesDataFiltered(searchIndex, salesData, call.filters, s, p).totalItems
                 = ret[1].totalRecords
          /\ (Len(call.filters.search) = 0 /\ ~hasAnyFilter(call.filters))
               => ret[1] = computeStats(salesData))
  /\ [][(call.fn = "none" /\ call'.fn = "getFilteredStats")
          => UNCHANGED <<statsCache, lastDataLength>>]_vars

\* the unfiltered statistics were computed while the cache held those of an
\* earlier collection of the same size
C23_Witness ==
  /\ call.fn = "getFilteredStats"
  /\ Len(call.filters.search) = 0 /\ ~hasAnyFilter(call.filters)
  /\ Len(salesData) = 2
  /\ statsCache # <<>>
  /\ statsCache[1].totalRecords = 2
  /\ statsCache # ret

\* C24: build called again on an unchanged collection gives an index for
\* which search returns the same result in the same order for every query,
\* with no entry of the previous build left over or duplicated: the index
\* is the one a first build of the collection gives.
C24_IdempotentRebuild ==
  [][(call.fn = "none" /\ call'.fn = "rebuild") =>
       /\ \A q \in SearchQueries :
            search(searchIndex', q, salesData) = search(searchIndex, q, salesData)
       /\ searchIndex' = build(salesData)]_vars

\* a collection of two records with several indexed words and phone
\* prefixes has been rebuilt
C24_Witness ==
  /\ call.fn = "rebuild"
  /\ Len(salesData) = 2
  /\ Len(searchIndex.nameWordIndex) >= 2
  /\ Len(searchIndex.phoneIndex) >= 2
  /\ searchIndex = build(salesData)

\* C25: the page size handed to the query engine is 10 when the limit is
\* absent or unparseable and never above the documented maximum of 100; the
\* page is 1 by default and never below 1.
C25_LimitBounded ==
  call.fn = "getSales" =>
    /\ isNaN(rawLimit) => req.pagination.limit = DefaultLimit
    /\ req.pagination.limit >= 1
    /\ req.pagination.limit <= DocumentedMaxLimit
    /\ isNaN(rawPage) => req.pagination.page = 1
    /\ req.pagination.page >= 1

\* the cache holds every row of a source of this many rows, or as many as
\* the safety limit allows
holdsAllOf(rows) ==
  /\ Len(cacheRecords) = rows
       \/ (Len(cacheRecords) >= RecordLimit /\ Len(cacheRecords) <= rows)
  /\ \A k \in 1..Len(cacheRecords) : cacheRecords[k].id = k

\* C26: once a build has returned, isReady is true only if that build loaded
\* every row of its source (search_index or sales); a batch fetch that fails
\* does not leave the cache ready with the records loaded so far.
C26_ReadyOnlyIfComplete ==
  (isReady /\ ~isLoading) =>
    \/ (indexRows >= MinIndexRecords /\ holdsAllOf(indexRows))
    \/ holdsAllOf(Len(salesTable))

RECURSIVE rankFrom(_, _)
rankFrom(k, strategy) ==
  IF k > Len(Strategies) \/ Strategies[k] = strategy THEN k
  ELSE rankFrom(k + 1, strategy)

rank(strategy) == rankFrom(1, strategy)

producedNoIds(entry) == entry.ids = NULL \/ Len(entry.ids) = 0

C28_WitnessReady ==
  /\ ~idle
  /\ isReady
  /\ Len(req.filters.search) >= 2
  /\ invoked = <<[strategy |-> "cache", ids |-> <<>>]>>

\* the record of the cache that holds an id
cacheRecordsOf(id) == {k \in DOMAIN cacheRecords : cacheRecords[k].id = id}

\* C29: searchCache.search returns null exactly when the cache is not ready
\* or the query has fewer than two characters; otherwise it returns at most
\* maxResults ids, none of them twice, each the id of a cached record whose
\* name contains the query (lowercased and trimmed, as search takes it) or
\* whose phone contains the digits of the query
C29_SearchResult ==
  [][(idle /\ ~idle') =>
       LET query == req'.filters.search
           maxResults == req'.pagination.limit
           normalizedQuery == trim(toLowerCase(query))
           queryDigits == digitsOnly(query)
       IN /\ (hits' = NULL) <=> (~isReady \/ Len(query) < 2)
          /\ hits' # NULL =>
               /\ Len(hits') <= maxResults
               /\ \A i, j \in DOMAIN hits' : i # j => hits'[i] # hits'[j]
               /\ \A i \in DOMAIN hits' :
                    \E k \in cacheRecordsOf(hits'[i]) :
                      \/ startsWith(cacheRecords[k].name, normalizedQuery)
                      \/ includes(cacheRecords[k].name, normalizedQuery)
                      \/ /\ Len(queryDigits) > 0
                         /\ includes(cacheRecords[k].phone, queryDigits)]_vars

\* a search of the ready cache that found one record by the start of its
\* name and another by the inside of its name
C29_Witness ==
  /\ ~idle
  /\ isReady
  /\ Len(req.filters.search) >= 3
  /\ hits # NULL
  /\ Len(hits) = 2
  /\ \E k \in cacheRecordsOf(hits[2]) :
       LET normalizedQuery == trim(toLowerCase(req.filters.search))
       IN /\ ~startsWith(cacheRecords[k].name, normalizedQuery)
          /\ includes(cacheRecords[k].name, normalizedQuery)

\* C30: every step of the hook that changes the filters or the page size
\* leaves the page at 1, and every step that changes the page or the sorting
\* and not the page size leaves the filters as they were
C30_FilterChangeResetsPage ==
  [][/\ (hook'.filters # hook.filters \/ hook'.pagination.limit # hook.pagination.limit)
         => hook'.pagination.page = 1
     /\ (hook'.sorting # hook.sorting \/ hook'.pagination.page > 1)
         => hook'.filters = hook.filters]_vars

====
